---- MODULE Spec2Model ----
(***************************************************************************)
(* Model of the mathematical query router of tools/math_tools.py:          *)
(* MathTools._parse_expression_safely, the six operations and solve_math.  *)
(*                                                                         *)
(* Text is a sequence of one-character strings.  The symbolic engine       *)
(* (sympy), the classifier (self.client.responses.create), the context     *)
(* fetcher and the policy file are external: every call picks one of the   *)
(* outcomes the collaborator can produce.                                  *)
(***************************************************************************)
EXTENDS Integers, Sequences, FiniteSets, TLC

VARIABLES
    pc,               \* position of the running call
    entry,            \* the public function that was called
    query,            \* solve_math: the query argument
    fetcherGiven,     \* solve_math: context_fetcher_func is not None
    policyFile,       \* the routing policy file when solve_math is called
    stages,           \* solve_math: the steps of the body run so far
    policy,           \* solve_math: routing_system_prompt, once loaded
    classifierLog,    \* calls of self.client.responses.create, in order
    output_text,      \* solve_math: the classifier's response
    routing_json,     \* solve_math: the local routing_json
    routing_decision, \* solve_math: the local routing_decision
    context_result,   \* solve_math: what the context fetcher did
    context,          \* solve_math: the local context
    fetcherLog,       \* calls of context_fetcher_func, in order
    opLog,            \* calls of the six operation functions, in order
    parserLog,        \* texts handed to sympy.parse_expr / sympy.sympify
    parseArg,         \* _parse_expression_safely: the expression argument
    outcome,          \* "none", "returned" or "raised"
    result,           \* the returned envelope (or the raised exception)
    self,             \* the fields of the MathTools instance
    parked            \* a second invocation on the instance, not running now

\* set when a call starts
frame == <<entry, query, fetcherGiven, policyFile>>

\* the locals of solve_math
locals == <<policy, output_text, routing_json, routing_decision,
            context_result, context>>

\* the calls made to the collaborators and to the operations
logs == <<classifierLog, fetcherLog, opLog, parserLog>>

\* what the instance holds and what another thread holds
shared == <<self, parked>>

vars == <<pc, frame, stages, locals, logs, parseArg, outcome, result, shared>>

(***************************************************************************)
(* Bounds                                                                  *)
(***************************************************************************)
MaxExprLen == 4        \* longest expression given to _parse_expression_safely
MaxLines == 3          \* most lines in a classifier response
MaxSolutions == 1      \* most roots the engine returns in the model

(***************************************************************************)
(* Characters and text                                                     *)
(***************************************************************************)
Digits == {"0", "1", "2", "3", "4", "5", "6", "7", "8", "9"}

LowerLetters == {"a", "b", "c", "d", "e", "f", "g", "h", "i", "j", "k", "l",
                 "m", "n", "o", "p", "q", "r", "s", "t", "u", "v", "w", "x",
                 "y", "z"}

UpperLetters == {"A", "B", "C", "D", "E", "F", "G", "H", "I", "J", "K", "L",
                 "M", "N", "O", "P", "Q", "R", "S", "T", "U", "V", "W", "X",
                 "Y", "Z"}

Letters == LowerLetters \cup UpperLetters

Spaces == {" ", "\t", "\n"}

IsDigit(c) == c \in Digits

IsLetter(c) == c \in Letters

IsSpace(c) == c \in Spaces

\* str.strip(): drop leading and trailing whitespace.
Strip(s) ==
    LET keep == {i \in 1..Len(s) : ~IsSpace(s[i])}
        lo == CHOOSE i \in keep : \A j \in keep : i <= j
        hi == CHOOSE i \in keep : \A j \in keep : j <= i
    IN IF keep = {} THEN <<>> ELSE SubSeq(s, lo, hi)

\* the text s with t inserted after every position in marks
InsertAfter(s, marks, t) ==
    LET F[i \in 0..Len(s)] ==
            IF i = 0 THEN <<>>
            ELSE F[i - 1] \o <<s[i]>> \o (IF i \in marks THEN t ELSE <<>>)
    IN F[Len(s)]

\* the text s with every character in drop replaced by t
ReplaceChar(s, drop, t) ==
    LET F[i \in 0..Len(s)] ==
            IF i = 0 THEN <<>>
            ELSE F[i - 1] \o (IF s[i] = drop THEN t ELSE <<s[i]>>)
    IN F[Len(s)]


\* AllowedChar with a character class that also lets "$" through
AllowedCharLax(c) ==
    \/ IsLetter(c)
    \/ IsDigit(c)
    \/ IsSpace(c)
    \/ c \in {"+", "-", "*", "/", "(", ")", "^", "=", ".", ",", "_", "$"}

(***************************************************************************)
(* _parse_expression_safely                                                *)
(***************************************************************************)
\* the character class [a-zA-Z0-9+\-*/()^=\s\.,_] of the invalid-character scan
AllowedChar(c) ==
    \/ IsLetter(c)
    \/ IsDigit(c)
    \/ IsSpace(c)
    \/ c \in {"+", "-", "*", "/", "(", ")", "^", "=", ".", ",", "_"}

\* re.findall(r'[^a-zA-Z0-9+\-*/()^=\s\.,_]', expression), as a set
InvalidChars(expression) ==
    {expression[i] : i \in {j \in 1..Len(expression) : ~AllowedChar(expression[j])}}

\* re.sub(r'\^', '**', s)
CaretToPower(s) == ReplaceChar(s, "^", <<"*", "*">>)

\* re.sub(r'(\d)([a-zA-Z])(?![a-zA-Z])', r'\1*\2', s)
DigitLetter(s) ==
    InsertAfter(s, {i \in 1..(Len(s) - 1) :
                       /\ IsDigit(s[i])
                       /\ IsLetter(s[i + 1])
                       /\ (i + 2 <= Len(s) => ~IsLetter(s[i + 2]))}, <<"*">>)

\* re.sub(r'\)([a-zA-Z])(?![a-zA-Z])', r')*\1', s)
ParenLetter(s) ==
    InsertAfter(s, {i \in 1..(Len(s) - 1) :
                       /\ s[i] = ")"
                       /\ IsLetter(s[i + 1])
                       /\ (i + 2 <= Len(s) => ~IsLetter(s[i + 2]))}, <<"*">>)

\* LetterParen without the lookbehind: every letter before "(" gets a "*"
LetterParenAny(s) ==
    InsertAfter(s, {i \in 1..(Len(s) - 1) :
                       IsLetter(s[i]) /\ s[i + 1] = "("}, <<"*">>)

\* re.sub(r'(?<![a-zA-Z])([a-zA-Z])\(', r'\1*(', s)
LetterParen(s) ==
    InsertAfter(s, {i \in 1..(Len(s) - 1) :
                       /\ IsLetter(s[i])
                       /\ s[i + 1] = "("
                       /\ (i > 1 => ~IsLetter(s[i - 1]))}, <<"*">>)

\* the cleaned_expr handed to sympy.parse_expr
CleanExpression(expression) ==
    LetterParen(ParenLetter(DigitLetter(CaretToPower(Strip(expression)))))

\* the ValueError raised by the except clause of _parse_expression_safely
InvalidExpression(cause) == <<"Invalid mathematical expression: ", cause>>

\* Does the allow-list scan let the expression through to the rewriting?
PassesPreFilter(expression) == InvalidChars(expression) = {}

\* _parse_expression_safely(expression); parserOk is the outcome of
\* sympy.parse_expr on the cleaned text.  handed: the texts given to the parser.
ParseExpressionSafely(expression, parserOk) ==
    IF expression = <<>> \/ Strip(expression) = <<>>
    THEN [raised |-> TRUE, handed |-> <<>>,
          error |-> InvalidExpression(<<"Empty expression">>)]
    ELSE IF ~PassesPreFilter(expression)
    THEN [raised |-> TRUE, handed |-> <<>>,
          error |-> InvalidExpression(<<"Invalid characters found: ",
                                        InvalidChars(expression)>>)]
    ELSE IF ~parserOk
    THEN [raised |-> TRUE, handed |-> <<CleanExpression(expression)>>,
          error |-> InvalidExpression(<<"SympifyError">>)]
    ELSE [raised |-> FALSE, handed |-> <<CleanExpression(expression)>>,
          tree |-> [parsed |-> CleanExpression(expression)]]

(***************************************************************************)
(* The symbolic engine                                                     *)
(***************************************************************************)
\* What the engine does in one operation call: p1, p2 whether parse_expr
\* accepts the first and the second text it is given, s whether the
\* subtraction of two parsed texts returns where that is open, c whether the
\* computation (solve, simplify, diff, integrate, factor, sympify) returns,
\* n the number of roots, changed whether the printed result differs from the
\* printed input, kind the class of an arithmetic result.
EngineOutcomes ==
    {o \in [p1 : BOOLEAN, p2 : BOOLEAN, s : BOOLEAN, c : BOOLEAN,
            n : 0..MaxSolutions, changed : BOOLEAN, kind : {"Integer"}] :
        \* what follows a failure is never asked for
        /\ ~o.p1 => o.p2
        /\ ~(o.p1 /\ o.p2) => o.s
        /\ ~(o.p1 /\ o.p2 /\ o.s) => o.c
        /\ ~(o.p1 /\ o.p2 /\ o.s /\ o.c) => (o.n = 0 /\ ~o.changed)}

ArithmeticOutcomes ==
    {o \in [p1 : {TRUE}, p2 : {TRUE}, s : {TRUE}, c : BOOLEAN, n : {0},
            changed : {FALSE},
            kind : {"Integer", "IntegralFloat", "Float", "Rational",
                    "Symbolic"}] :
        ~o.c => o.kind = "Integer"}

HasChar(s, c) == \E i \in 1..Len(s) : s[i] = c

\* The classes of value sympify can give for a cleaned arithmetic text: an
\* Integer; a Float (with a whole value or not) only when the text has a
\* decimal point; a Rational only when it has a division or a negative
\* power; zoo or nan (Symbolic) only when it also has a zero.
ArithmeticKinds(cleaned) ==
    LET Quotient(division) ==
            (IF division THEN {"Rational"} ELSE {})
            \cup (IF division /\ HasChar(cleaned, "0") THEN {"Symbolic"} ELSE {})
    IN {"Integer"}
       \cup (IF HasChar(cleaned, ".") THEN {"Float", "IntegralFloat"} ELSE {})
       \cup Quotient(\/ HasChar(cleaned, "/")
                     \/ HasChar(cleaned, "*") /\ HasChar(cleaned, "-"))

ArithmeticOutcomesOf(cleaned) ==
    {o \in ArithmeticOutcomes : o.kind \in ArithmeticKinds(cleaned)}

\* the entries of parserLog
ParseExprCall(text) == [fn |-> "parse_expr", text |-> text]

SympifyCall(text) == [fn |-> "sympify", text |-> text]

LogParseExpr(handed) == [i \in 1..Len(handed) |-> ParseExprCall(handed[i])]

\* an exception of the engine, as the text str(e) of the message
EngineError == <<"NotImplementedError">>

\* the limits argument of calculate_integral: None or a list
NoLimits == [isNone |-> TRUE, items |-> <<>>]

LimitsList(items) == [isNone |-> FALSE, items |-> items]

(***************************************************************************)
(* The six operations.  Each yields [ret, parsed]: the envelope returned    *)
(* and the calls of the parser it made.                                    *)
(***************************************************************************)
\* position of the first "=" of the text, 0 if there is none
FirstEquals(s) ==
    LET at == {i \in 1..Len(s) : s[i] = "="}
    IN IF at = {} THEN 0 ELSE CHOOSE i \in at : \A j \in at : i <= j

solve_equation_error(equation, variable, e) ==
    [status |-> "error",
     message |-> <<"Error solving equation '", equation, "': ", e>>,
     equation |-> equation,
     variable |-> variable]

\* the parsed text "0"
Zero == [parsed |-> <<"0">>]

\* left_expr - right_expr of two expressions: the engine drops a zero term
Minus(a, b) == IF b = Zero THEN a ELSE [minus |-> <<a, b>>]

\* Does left_expr - right_expr raise a TypeError?  A text with a comma parses
\* to a tuple, which has no subtraction, unless the comma separates the
\* arguments of a function call; with parentheses in the text that is left
\* to the engine's outcome s.
SubtractionRaises(left, right, o) ==
    /\ HasChar(left, ",") \/ HasChar(right, ",")
    /\ ~(HasChar(left, "(") \/ HasChar(right, "(")) \/ ~o.s

\* solve_equation yields [ret, parsed, solved]; solved: the arguments of
\* sympy.solve, if it was called
solve_equation(equation, variable, o) ==
    LET k == FirstEquals(equation)
        left == IF k = 0 THEN equation ELSE Strip(SubSeq(equation, 1, k - 1))
        right == Strip(SubSeq(equation, k + 1, Len(equation)))
        r1 == ParseExpressionSafely(left, o.p1)
        r2 == ParseExpressionSafely(right, o.p2)
        parsed == IF k = 0 \/ r1.raised THEN LogParseExpr(r1.handed)
                  ELSE LogParseExpr(r1.handed \o r2.handed)
        expr == IF k = 0 THEN r1.tree ELSE Minus(r1.tree, r2.tree)
    IN IF r1.raised
       THEN [ret |-> solve_equation_error(equation, variable, r1.error),
             parsed |-> parsed, solved |-> <<>>]
       ELSE IF k # 0 /\ r2.raised
       THEN [ret |-> solve_equation_error(equation, variable, r2.error),
             parsed |-> parsed, solved |-> <<>>]
       ELSE IF k # 0 /\ SubtractionRaises(r1.handed[1], r2.handed[1], o)
       THEN [ret |-> solve_equation_error(equation, variable, <<"TypeError">>),
             parsed |-> parsed, solved |-> <<>>]
       ELSE IF ~o.c
       THEN [ret |-> solve_equation_error(equation, variable, EngineError),
             parsed |-> parsed, solved |-> <<expr, variable>>]
       ELSE [ret |-> [status |-> "success",
                      equation |-> equation,
                      variable |-> variable,
                      solutions |-> [i \in 1..o.n |->
                                        [root |-> i, of |-> expr, var |-> variable]],
                      solution_count |-> o.n,
                      solution_type |-> "symbolic"],
             parsed |-> parsed, solved |-> <<expr, variable>>]

simplify_expression(expression, o) ==
    LET r == ParseExpressionSafely(expression, o.p1)
        parsed == LogParseExpr(r.handed)
        error(e) == [status |-> "error",
                     message |-> <<"Error simplifying expression '", expression,
                                   "': ", e>>,
                     original_expression |-> expression]
    IN IF r.raised THEN [ret |-> error(r.error), parsed |-> parsed]
       ELSE IF ~o.c THEN [ret |-> error(EngineError), parsed |-> parsed]
       ELSE [ret |-> [status |-> "success",
                      original_expression |-> expression,
                      simplified_expression |-> [simplify |-> r.tree],
                      is_simplified |-> o.changed],
             parsed |-> parsed]

calculate_derivative(expression, variable, order, o) ==
    LET r == ParseExpressionSafely(expression, o.p1)
        parsed == LogParseExpr(r.handed)
        error(e) == [status |-> "error",
                     message |-> <<"Error calculating derivative of '",
                                   expression, "': ", e>>,
                     original_expression |-> expression,
                     variable |-> variable,
                     order |-> order]
    IN IF r.raised THEN [ret |-> error(r.error), parsed |-> parsed]
       ELSE IF ~o.c THEN [ret |-> error(EngineError), parsed |-> parsed]
       ELSE [ret |-> [status |-> "success",
                      original_expression |-> expression,
                      variable |-> variable,
                      order |-> order,
                      derivative |->
                          [diff |-> r.tree, var |-> variable, order |-> order],
                      simplified_derivative |->
                          [simplify |->
                              [diff |-> r.tree, var |-> variable, order |-> order]]],
             parsed |-> parsed]

\* WrongLimitCount accepting every list of two or more limits
WrongLimitCountShort(limits) == Len(limits.items) < 2

\* "if len(limits) != 2"
WrongLimitCount(limits) == Len(limits.items) # 2

\* str(e) of the ValueError raised for a list of limits of the wrong length
LimitsError == <<"Limits must be a list of exactly 2 values [lower, upper]">>

calculate_integral(expression, variable, limits, o) ==
    LET r == ParseExpressionSafely(expression, o.p1)
        parsed == LogParseExpr(r.handed)
        \* "if limits:" is false for None and for the empty list
        definite == ~limits.isNone /\ Len(limits.items) > 0
        integral == IF definite
                    THEN [integrate |-> r.tree, var |-> variable,
                          lower |-> limits.items[1], upper |-> limits.items[2]]
                    ELSE [integrate |-> r.tree, var |-> variable]
        error(e) == [status |-> "error",
                     message |-> <<"Error calculating integral of '",
                                   expression, "': ", e>>,
                     original_expression |-> expression,
                     variable |-> variable,
                     limits |-> limits]
    IN IF r.raised THEN [ret |-> error(r.error), parsed |-> parsed]
       ELSE IF definite /\ WrongLimitCount(limits)
       THEN [ret |-> error(LimitsError), parsed |-> parsed]
       ELSE IF ~o.c THEN [ret |-> error(EngineError), parsed |-> parsed]
       ELSE [ret |-> [status |-> "success",
                      original_expression |-> expression,
                      variable |-> variable,
                      limits |-> limits,
                      integral_type |-> IF definite THEN "definite"
                                        ELSE "indefinite",
                      integral |-> integral,
                      simplified_integral |-> [simplify |-> integral]],
             parsed |-> parsed]

factor_expression(expression, o) ==
    LET r == ParseExpressionSafely(expression, o.p1)
        parsed == LogParseExpr(r.handed)
        error(e) == [status |-> "error",
                     message |-> <<"Error factoring expression '", expression,
                                   "': ", e>>,
                     original_expression |-> expression]
    IN IF r.raised THEN [ret |-> error(r.error), parsed |-> parsed]
       ELSE IF ~o.c THEN [ret |-> error(EngineError), parsed |-> parsed]
       ELSE [ret |-> [status |-> "success",
                      original_expression |-> expression,
                      factored_expression |-> [factor |-> r.tree],
                      is_factored |-> o.changed],
             parsed |-> parsed]

\* the character class [0-9+\-*/().\s] kept by calculate_complex_arithmetic
ArithmeticChars == Digits \cup Spaces \cup {"+", "-", "*", "/", "(", ")", "."}

\* a cleaning that also keeps "=" (not the code's)
ArithmeticCharOrEquals(c) == c \in ArithmeticChars \cup {"="}

ArithmeticChar(c) == c \in ArithmeticChars

\* re.sub(r'[^0-9+\-*/().\s]', '', expression.replace('x', '*'))
CleanArithmetic(expression) ==
    LET replaced == ReplaceChar(expression, "x", <<"*">>)
    IN SelectSeq(replaced, ArithmeticChar)

\* the numeric_result of calculate_complex_arithmetic: its Python type, the
\* text it is the value of, and whether that value is a whole number
NumericResult(cleaned, kind) ==
    CASE kind = "Integer" -> [type |-> "int", of |-> cleaned, whole |-> TRUE]
      [] kind = "IntegralFloat" -> [type |-> "int", of |-> cleaned, whole |-> TRUE]
      [] kind = "Float" -> [type |-> "float", of |-> cleaned, whole |-> FALSE]
      [] OTHER -> [type |-> "str", of |-> cleaned, whole |-> FALSE]

calculate_complex_arithmetic(expression, o) ==
    LET cleaned_expr == CleanArithmetic(expression)
        parsed == <<SympifyCall(cleaned_expr)>>
    IN IF ~o.c
       THEN [ret |-> [status |-> "error",
                      message |-> <<"Error calculating arithmetic expression '",
                                    expression, "': ", EngineError>>,
                      original_expression |-> expression],
             parsed |-> parsed]
       ELSE [ret |-> [status |-> "success",
                      original_expression |-> expression,
                      cleaned_expression |-> cleaned_expr,
                      result |-> NumericResult(cleaned_expr, o.kind),
                      result_type |-> "arithmetic",
                      precision |-> "high"],
             parsed |-> parsed]

(***************************************************************************)
(* Pattern matching on text (the fragments of re the extractors use)       *)
(***************************************************************************)
Min(S) == CHOOSE i \in S : \A j \in S : i <= j

\* s[n+1:]
Drop(s, n) == SubSeq(s, n + 1, Len(s))

\* Does the literal lit occur in s at position i?
HasAt(s, i, lit) ==
    /\ i >= 1
    /\ i + Len(lit) - 1 <= Len(s)
    /\ \A k \in 1..Len(lit) : s[i + k - 1] = lit[k]

\* "lit in s"
Contains(s, lit) == \E i \in 1..(Len(s) + 1) : HasAt(s, i, lit)

\* a character class of a pattern: [set] and [^set]
CharClass(set) == [neg |-> FALSE, set |-> set]

NotClass(set) == [neg |-> TRUE, set |-> set]

InClass(c, class) == (c \in class.set) # class.neg

\* length of the longest run of characters of the class that starts at i
RunLen(s, i, class) ==
    LET stops == {j \in i..Len(s) : ~InClass(s[j], class)}
    IN IF i > Len(s) THEN 0
       ELSE IF stops = {} THEN Len(s) - i + 1
       ELSE Min(stops) - i

\* the position after the longest run of characters of the class from i on
After(s, i, class) == i + RunLen(s, i, class)

\* s without its first Min(ends) characters, s itself when ends is empty:
\* re.sub with a pattern anchored at the start, ends its possible matches
CutAt(s, ends) == IF ends = {} THEN s ELSE Drop(s, Min(ends))

\* the result of a re.search that failed, and of one whose group 1 is text
NotFound == [found |-> FALSE, text |-> <<>>]

Found(text) == [found |-> TRUE, text |-> text]

\* re.search(r'([class]+)', s): the leftmost longest run of the class
FirstRun(s, class) ==
    LET Run(i) == Found(SubSeq(s, i, After(s, i, class) - 1))
        Pick(at) == IF at = {} THEN NotFound ELSE Run(Min(at))
    IN Pick({i \in 1..Len(s) : InClass(s[i], class)})

\* str.lower()
LowerChar(c) ==
    CASE c = "A" -> "a"
      [] c = "B" -> "b" [] c = "C" -> "c" [] c = "D" -> "d"
      [] c = "E" -> "e" [] c = "F" -> "f" [] c = "G" -> "g"
      [] c = "H" -> "h" [] c = "I" -> "i" [] c = "J" -> "j"
      [] c = "K" -> "k" [] c = "L" -> "l" [] c = "M" -> "m"
      [] c = "N" -> "n" [] c = "O" -> "o" [] c = "P" -> "p"
      [] c = "Q" -> "q" [] c = "R" -> "r" [] c = "S" -> "s"
      [] c = "T" -> "t" [] c = "U" -> "u" [] c = "V" -> "v"
      [] c = "W" -> "w" [] c = "X" -> "x" [] c = "Y" -> "y"
      [] c = "Z" -> "z"
      [] OTHER -> c

Lower(s) == [i \in 1..Len(s) |-> LowerChar(s[i])]

\* \w
WordChars == Letters \cup Digits \cup {"_"}

\* re.sub(r'^(l1|l2|...)\s+', '', s) for a set of literals
DropPrefix(s, lits) ==
    LET End(l) == After(s, Len(l) + 1, CharClass(Spaces)) - 1
    IN CutAt(s, {End(l) : l \in {m \in lits : HasAt(s, 1, m) /\ End(m) > Len(m)}})

\* the value of int(text) for a run of decimal digits
DigitValue(c) ==
    CASE c = "0" -> 0 [] c = "1" -> 1 [] c = "2" -> 2 [] c = "3" -> 3
      [] c = "4" -> 4 [] c = "5" -> 5 [] c = "6" -> 6 [] c = "7" -> 7
      [] c = "8" -> 8 [] c = "9" -> 9

ToInt(text) ==
    LET F[i \in 0..Len(text)] ==
            IF i = 0 THEN 0 ELSE 10 * F[i - 1] + DigitValue(text[i])
    IN F[Len(text)]

(***************************************************************************)
(* The parameter extractors                                                *)
(***************************************************************************)
\* the words of the extractors' patterns
Words ==
    [solve |-> <<"s", "o", "l", "v", "e">>,
     find |-> <<"f", "i", "n", "d">>,
     what_is |-> <<"w", "h", "a", "t", " ", "i", "s">>,
     calculate |-> <<"c", "a", "l", "c", "u", "l", "a", "t", "e">>,
     for |-> <<"f", "o", "r">>,
     the |-> <<"t", "h", "e">>,
     equation |-> <<"e", "q", "u", "a", "t", "i", "o", "n">>,
     expression |-> <<"e", "x", "p", "r", "e", "s", "s", "i", "o", "n">>,
     simplify |-> <<"s", "i", "m", "p", "l", "i", "f", "y">>,
     derivative_of |-> <<"d", "e", "r", "i", "v", "a", "t", "i", "v", "e", " ", "o", "f">>,
     differentiate |-> <<"d", "i", "f", "f", "e", "r", "e", "n", "t", "i", "a", "t", "e">>,
     integrate |-> <<"i", "n", "t", "e", "g", "r", "a", "t", "e">>,
     factor |-> <<"f", "a", "c", "t", "o", "r">>,
     factorize |-> <<"f", "a", "c", "t", "o", "r", "i", "z", "e">>,
     find_the |-> <<"f", "i", "n", "d", " ", "t", "h", "e">>,
     calculate_the |-> <<"c", "a", "l", "c", "u", "l", "a", "t", "e", " ", "t", "h", "e">>,
     what_is_the |-> <<"w", "h", "a", "t", " ", "i", "s", " ", "t", "h", "e">>,
     derivative |-> <<"d", "e", "r", "i", "v", "a", "t", "i", "v", "e">>,
     integral |-> <<"i", "n", "t", "e", "g", "r", "a", "l">>,
     of |-> <<"o", "f">>,
     from |-> <<"f", "r", "o", "m">>,
     to |-> <<"t", "o">>,
     between |-> <<"b", "e", "t", "w", "e", "e", "n">>,
     and |-> <<"a", "n", "d">>,
     with_respect_to |-> <<"w", "i", "t", "h", " ", "r", "e", "s", "p", "e", "c", "t", " ", "t", "o", " ">>,
     second_derivative |-> <<"s", "e", "c", "o", "n", "d", " ", "d", "e", "r", "i", "v", "a", "t", "i", "v", "e">>,
     third_derivative |-> <<"t", "h", "i", "r", "d", " ", "d", "e", "r", "i", "v", "a", "t", "i", "v", "e">>]

\* [0-9a-zA-Z+\-*/^=().\s]
EquationChars ==
    Digits \cup Letters \cup Spaces \cup {"+", "-", "*", "/", "^", "=", "(", ")", "."}

\* [0-9a-zA-Z+\-*/^().\s,sin|cos|tan|log|exp|sqrt]
ExpressionChars ==
    Digits \cup Letters \cup Spaces \cup {"+", "-", "*", "/", "^", "(", ")", ".", ",", "|"}

\* Strip(m.group(1)) of a search that matched, the query q otherwise
GroupOr(m, q) == IF m.found THEN Strip(m.text) ELSE q

\* re.sub(r'^(for|the\s+)?(equation|expression)\s+', '', s)
DropEquationWord(s) ==
    LET Skips(ws) == {0}
                     \cup (IF HasAt(s, 1, Words.for) THEN {3} ELSE {})
                     \cup (IF HasAt(s, 1, Words.the) /\ ws >= 1 THEN {3 + ws} ELSE {})
        Spaced(a, b) == IF b > a THEN {b - 1} ELSE {}
        End(k, w) == IF HasAt(s, k + 1, w)
                     THEN Spaced(k + Len(w) + 1,
                                 After(s, k + Len(w) + 1, CharClass(Spaces)))
                     ELSE {}
    IN CutAt(s, UNION {End(x[1], x[2]) :
                          x \in Skips(RunLen(s, 4, CharClass(Spaces)))
                                \X {Words.equation, Words.expression}})

_extract_equation_from_query(q) ==
    GroupOr(FirstRun(DropPrefix(DropEquationWord(
                         DropPrefix(Lower(q),
                                    {Words.solve, Words.find, Words.what_is, Words.calculate})),
                                {Words.for}),
                     CharClass(EquationChars)),
            q)

\* re.sub(r'^(the\s+)?(derivative|integral|factor)\s+of\s+', '', s)
DropOfPhrase(s) ==
    LET Skips(ws) == IF HasAt(s, 1, Words.the) /\ ws >= 1 THEN {0, 3 + ws} ELSE {0}
        \* c: the position after "of", d: the position after the spaces
        Spaced(c, d) == IF d > c THEN {d - 1} ELSE {}
        \* a: the position after the word, b: the position after the spaces
        Of(a, b) == IF b > a /\ HasAt(s, b, Words.of)
                    THEN Spaced(b + 2, After(s, b + 2, CharClass(Spaces)))
                    ELSE {}
        End(k, w) == IF HasAt(s, k + 1, w)
                     THEN Of(k + Len(w) + 1,
                             After(s, k + Len(w) + 1, CharClass(Spaces)))
                     ELSE {}
    IN CutAt(s, UNION {End(x[1], x[2]) :
                          x \in Skips(RunLen(s, 4, CharClass(Spaces)))
                                \X {Words.derivative, Words.integral, Words.factor}})

\* cleaned.split('from')[0]
BeforeFrom(s) ==
    LET Pick(at) == IF at = {} THEN s ELSE SubSeq(s, 1, Min(at) - 1)
    IN Pick({i \in 1..Len(s) : HasAt(s, i, Words.from)})

_extract_expression_from_query(q) ==
    LET Range(c, head) == IF /\ Contains(c, Words.from)
                             /\ Contains(c, Words.to)
                             /\ head # <<>>
                          THEN head ELSE c
        Cleaned(c) == Range(c, Strip(BeforeFrom(c)))
    IN GroupOr(FirstRun(Cleaned(DropOfPhrase(DropPrefix(
                            DropPrefix(Lower(q),
                                       {Words.simplify, Words.derivative_of, Words.differentiate,
                                        Words.integrate, Words.factor, Words.factorize}),
                            {Words.find_the, Words.calculate_the, Words.what_is_the}))),
                        CharClass(ExpressionChars)),
               q)

_extract_arithmetic_from_query(q) ==
    GroupOr(FirstRun(q, CharClass(ArithmeticChars)), q)

\* re.search(r'with respect to (\w+)', s): group 1 as [found, text]
WithRespectTo(s) ==
    LET Group(a) == Found(SubSeq(s, a, After(s, a, CharClass(WordChars)) - 1))
        Pick(at) == IF at = {} THEN NotFound
                    ELSE Group(Min(at) + Len(Words.with_respect_to))
    IN Pick({i \in 1..Len(s) :
                /\ HasAt(s, i, Words.with_respect_to)
                /\ RunLen(s, i + Len(Words.with_respect_to), CharClass(WordChars)) >= 1})

\* re.search(r'(\d+)(?:st|nd|rd|th)?\s+derivative', s): group 1 as [found, text]
NumericOrder(s) ==
    LET Suffix(j) == IF \E w \in {<<"s", "t">>, <<"n", "d">>, <<"r", "d">>,
                                  <<"t", "h">>} : HasAt(s, j, w)
                     THEN {0, 2} ELSE {0}
        \* a: the position after the suffix, b: the position after the spaces
        Word(a, b) == b > a /\ HasAt(s, b, Words.derivative)
        Rest(j) == \E k \in Suffix(j) :
                      Word(j + k, After(s, j + k, CharClass(Spaces)))
        Ok(i) == s[i] \in Digits /\ Rest(After(s, i, CharClass(Digits)))
        Group(i) == Found(SubSeq(s, i, After(s, i, CharClass(Digits)) - 1))
        Pick(at) == IF at = {} THEN NotFound ELSE Group(Min(at))
    IN Pick({i \in 1..Len(s) : Ok(i)})

\* _extract_derivative_params looking for the ordinal words only
OrdinalWordsOnly(q) ==
    [variable |-> IF WithRespectTo(Lower(q)).found
                  THEN WithRespectTo(Lower(q)).text ELSE <<"x">>,
     order |-> IF Contains(Lower(q), Words.second_derivative) THEN 2
               ELSE IF Contains(Lower(q), Words.third_derivative) THEN 3
               ELSE 1]

_extract_derivative_params(q) ==
    LET Variable(v) == IF v.found THEN v.text ELSE <<"x">>
        Order(n, s) == IF n.found THEN ToInt(n.text)
                       ELSE IF Contains(s, Words.second_derivative) THEN 2
                       ELSE IF Contains(s, Words.third_derivative) THEN 3
                       ELSE 1
    IN [variable |-> Variable(WithRespectTo(Lower(q))),
        order |-> Order(NumericOrder(Lower(q)), Lower(q))]

\* re.search(r'd(\w+)', s): group 1 as [found, text]
DVariable(s) ==
    LET Group(a) == Found(SubSeq(s, a, After(s, a, CharClass(WordChars)) - 1))
        Pick(at) == IF at = {} THEN NotFound ELSE Group(Min(at) + 1)
    IN Pick({i \in 1..Len(s) :
                s[i] = "d" /\ RunLen(s, i + 1, CharClass(WordChars)) >= 1})

\* the result of a search for limits that failed, and of one that matched
NoItems == [found |-> FALSE, items |-> <<>>]

\* Items keeping the lower limit only
ItemsLowerOnly(m) == [found |-> TRUE, items |-> <<Strip(m[1])>>]

Items(m) == [found |-> TRUE, items |-> <<Strip(m[1]), Strip(m[2])>>]

\* re.search(r'<word>\s+([^<excluded>\s]+)\s+<link>\s+([^\s,]+)', s) for the
\* patterns 'from ... to ...' and 'between ... and ...': the groups, stripped
WordLimits(s, word, excluded, link) ==
    LET \* the matches that start at i (none or one), as <<group 1, group 2>>;
        \* each step gets the positions where the parts so far begin and end
        Upper(b, c, f, g) ==
            IF g > f THEN {<<SubSeq(s, b, c - 1), SubSeq(s, f, g - 1)>>} ELSE {}
        Spaces2(b, c, e, f) ==
            IF f > e THEN Upper(b, c, f, After(s, f, NotClass(Spaces \cup {","})))
            ELSE {}
        Link(b, c, d) ==
            IF d > c /\ HasAt(s, d, link)
            THEN Spaces2(b, c, d + Len(link),
                         After(s, d + Len(link), CharClass(Spaces)))
            ELSE {}
        Lower1(b, c) ==
            IF c > b THEN Link(b, c, After(s, c, CharClass(Spaces))) ELSE {}
        Spaces1(a, b) ==
            IF b > a THEN Lower1(b, After(s, b, NotClass(Spaces \cup excluded)))
            ELSE {}
        Match(i) ==
            IF HasAt(s, i, word)
            THEN Spaces1(i + Len(word), After(s, i + Len(word), CharClass(Spaces)))
            ELSE {}
        Pick(at) == IF at = {} THEN NoItems
                    ELSE Items(CHOOSE m \in Match(Min(at)) : TRUE)
    IN Pick({i \in 1..Len(s) : Match(i) # {}})

\* re.search(r'\[([^,]+),\s*([^\]]+)\]', s): the groups, stripped
BracketLimits(s) ==
    LET \* \s* gives one character back when nothing else is left for the
        \* second group
        Back(c, ws) == IF ws >= 1 /\ c + ws <= Len(s) /\ s[c + ws] = "]"
                       THEN c + ws - 1 ELSE c + ws
        Upper(a, b, d, e) ==
            IF e > d /\ e <= Len(s)
            THEN {<<SubSeq(s, a, b - 1), SubSeq(s, d, e - 1)>>} ELSE {}
        Second(a, b, d) == Upper(a, b, d, After(s, d, NotClass({"]"})))
        Comma(a, b) ==
            IF b > a /\ b <= Len(s)
            THEN Second(a, b, Back(b + 1, RunLen(s, b + 1, CharClass(Spaces))))
            ELSE {}
        Match(i) ==
            IF s[i] = "[" THEN Comma(i + 1, After(s, i + 1, NotClass({","})))
            ELSE {}
        Pick(at) == IF at = {} THEN NoItems
                    ELSE Items(CHOOSE m \in Match(Min(at)) : TRUE)
    IN Pick({i \in 1..Len(s) : Match(i) # {}})

_extract_integral_params(q) ==
    LET Variable(v, d) == IF v.found THEN v.text
                          ELSE IF d.found THEN d.text
                          ELSE <<"x">>
        Limits(l1, l2, l3) == IF l1.found THEN LimitsList(l1.items)
                              ELSE IF l2.found THEN LimitsList(l2.items)
                              ELSE IF l3.found THEN LimitsList(l3.items)
                              ELSE NoLimits
    IN [variable |-> Variable(WithRespectTo(Lower(q)), DVariable(q)),
        limits |-> Limits(WordLimits(Lower(q), Words.from, {"t", "o"}, Words.to),
                          WordLimits(Lower(q), Words.between, {"a", "n", "d"}, Words.and),
                          BracketLimits(Lower(q)))]

(***************************************************************************)
(* The collaborators of solve_math                                         *)
(***************************************************************************)
\* JSON values, tagged with their type
JStr(v) == [t |-> "str", v |-> v]

JBool(b) == [t |-> "bool", v |-> IF b THEN "true" ELSE "false"]

\* Python None (and a key that the object does not have)
None == [t |-> "none", v |-> ""]

\* bool(value)
Truthy(j) ==
    CASE j.t = "none" -> FALSE
      [] j.t = "bool" -> j.v = "true"
      [] j.t = "str" -> j.v # ""

SixOperations ==
    {"solve_equation", "simplify_expression", "calculate_derivative",
     "calculate_integral", "factor_expression", "calculate_complex_arithmetic"}

\* the operation values a classifier response can carry; None: no such key
OperationValues ==
    {JStr(o) : o \in SixOperations \cup {"unknown_math_operation", ""}}
    \cup {None}

\* the needs_context values a classifier response can carry; None: no such key
NeedsContextValues == {JBool(TRUE), JBool(FALSE), None}

\* the JSON objects a classifier response can carry
\* a key of the routing JSON that solve_math never reads, absent or present
OtherKeyValues == {None, JStr("2x + 3 = 7")}

Payloads ==
    [operation : OperationValues, needs_context : NeedsContextValues,
     query : OtherKeyValues]

\* A classifier response is a sequence of lines; every line is a Markdown
\* fence (``` or ```json), blank, the JSON object of the response, some other
\* JSON document (a list, a number), or text that is no JSON.
LineKinds == {"fence", "fencejson", "blank", "object", "document", "garbage"}

LinesUpTo(n) == UNION {[1..k -> LineKinds] : k \in 0..n}

DefaultPayload == [operation |-> None, needs_context |-> None, query |-> None]

HasObject(lines) == \E i \in 1..Len(lines) : lines[i] = "object"

ClassifierTexts ==
    {x \in [lines : LinesUpTo(MaxLines), payload : Payloads] :
        HasObject(x.lines) \/ x.payload = DefaultPayload}

\* str.strip() of a response: leading and trailing blank lines go
StripLines(lines) ==
    LET keep == {i \in 1..Len(lines) : lines[i] # "blank"}
    IN IF keep = {} THEN <<>>
       ELSE SubSeq(lines, Min(keep), CHOOSE i \in keep : \A j \in keep : j <= i)

\* routing_json.startswith('```')
StartsWithFence(lines) ==
    Len(lines) >= 1 /\ lines[1] \in {"fence", "fencejson"}

\* DropFirstAndLastLine keeping the last line
DropFirstLine(lines) == SubSeq(lines, 2, Len(lines))

\* '\n'.join(routing_json.split('\n')[1:-1])
DropFirstAndLastLine(lines) == SubSeq(lines, 2, Len(lines) - 1)

\* the routing_json that is parsed, from the classifier's output_text
CleanRoutingJson(text) ==
    LET stripped == StripLines(text.lines)
    IN [lines |-> IF StartsWithFence(stripped)
                  THEN DropFirstAndLastLine(stripped) ELSE stripped,
        payload |-> text.payload]

\* json.loads(routing_json) returns: one JSON document, blank lines around it
JsonLoads(text) ==
    LET docs == {i \in 1..Len(text.lines) : text.lines[i] \in {"object", "document"}}
    IN IF /\ Cardinality(docs) = 1
          /\ \A i \in 1..Len(text.lines) : i \in docs \/ text.lines[i] = "blank"
       THEN [ok |-> TRUE,
             isObject |-> \E i \in docs : text.lines[i] = "object",
             value |-> text.payload]
       ELSE [ok |-> FALSE, isObject |-> FALSE, value |-> DefaultPayload]

\* what the context fetcher can do: raise, or return a dict with or without
\* "status" and "relevant_context"
TruncateAt == 100

TextOfLength(n) == [i \in 1..n |-> "c"]

Contexts == {TextOfLength(n) : n \in {0, 1, TruncateAt, TruncateAt + 1}}

FetcherOutcomes ==
    {x \in [raises : BOOLEAN, status : {"success", "error", "absent"},
            has_context : BOOLEAN, relevant_context : Contexts] :
        /\ x.raises => (x.status = "absent" /\ ~x.has_context)
        /\ ~x.has_context => x.relevant_context = <<>>}

\* the routing policy file: missing, unreadable, or its content
PolicyFiles ==
    {[state |-> "missing", content |-> <<>>],
     [state |-> "unreadable", content |-> <<>>],
     [state |-> "present", content |-> <<" ", "r", "o", "u", "t", "e", "\n">>]}

routing_prompt_file == "config/math_routing_prompt.txt"

(***************************************************************************)
(* The envelopes of solve_math                                             *)
(***************************************************************************)
PolicyNotFound(q) ==
    [status |-> "error",
     message |-> <<"Math routing prompt file not found: ", routing_prompt_file>>,
     query |-> q]



\* InvalidJson reporting the parse error with the text that failed left empty
InvalidJsonNoText(text, q) ==
    [status |-> "error",
     message |-> <<"Invalid JSON from routing LLM: ", [text EXCEPT !.lines = <<>>],
                   ". Error: ", "JSONDecodeError">>,
     query |-> q]

\* NoOperation with the message left empty
NoOperationSilent(decision, q) ==
    [status |-> "error", message |-> <<>>, query |-> q]

InvalidJson(text, q) ==
    [status |-> "error",
     message |-> <<"Invalid JSON from routing LLM: ", text, ". Error: ",
                   "JSONDecodeError">>,
     query |-> q]

NoOperation(decision, q) ==
    [status |-> "error",
     message |-> <<"No operation specified in routing decision: ", decision>>,
     query |-> q]


\* OuterExcept without the except clause: the exception leaves solve_math
OuterExceptMissing(e, q) ==
    [outcome |-> "raised", value |-> [exception |-> e]]

UnknownOperation(operation, q) ==
    [status |-> "error",
     message |-> <<"Unknown operation: ", operation.v>>,
     query |-> q]

\* the "except Exception as e" clause that encloses the body of solve_math
OuterExcept(e, q) ==
    [outcome |-> "returned",
     value |-> [status |-> "error",
                message |-> <<"Error in math routing: ", e>>,
                query |-> q]]

\* ContextContent cutting a context of exactly 100 characters as well
ContextContentEager(ctx) ==
    IF ctx # <<>> /\ Len(ctx) >= TruncateAt
    THEN SubSeq(ctx, 1, TruncateAt) \o <<".", ".", ".">>
    ELSE ctx

\* context[:100] + "..." if context and len(context) > 100 else context
ContextContent(ctx) ==
    IF ctx # <<>> /\ Len(ctx) > TruncateAt
    THEN SubSeq(ctx, 1, TruncateAt) \o <<".", ".", ".">>
    ELSE ctx

\* Annotate reporting whether a context was obtained as context_used
AnnotateObtained(ret, operation, needs_context, ctx, text) ==
    [k \in DOMAIN ret \cup {"routing_decision"} |->
        IF k = "routing_decision"
        THEN [operation |-> operation.v,
              context_used |-> JBool(ctx # <<>>),
              context_content |-> ContextContent(ctx),
              routing_json |-> text]
        ELSE ret[k]]

\* result["routing_decision"] = {...}
Annotate(ret, operation, needs_context, ctx, text) ==
    [k \in DOMAIN ret \cup {"routing_decision"} |->
        IF k = "routing_decision"
        THEN [operation |-> operation.v,
              context_used |-> needs_context,
              context_content |-> ContextContent(ctx),
              routing_json |-> text]
        ELSE ret[k]]

(***************************************************************************)
(* Inputs                                                                  *)
(***************************************************************************)
Queries ==
    {<<>>,
     <<"s", "o", "l", "v", "e", " ", "2", "x", "=", "4">>,
     <<"i", "n", "t", "e", "g", "r", "a", "t", "e", " ", "x", " ",
       "f", "r", "o", "m", " ", "0", " ", "t", "o", " ", "1">>}

Expressions ==
    {<<>>, <<"x", "^", "2">>, <<"2", "x", "=", "4">>, <<"a", "$">>,
     <<"1", "/", "3">>, <<"2", ".", "0">>}

Variables == {<<"x">>}

Orders == {1, 2}

LimitsValues ==
    {NoLimits, LimitsList(<<>>), LimitsList(<< <<"0">> >>),
     LimitsList(<< <<"0">>, <<"1">> >>),
     LimitsList(<< <<"0">>, <<"1">>, <<"2">> >>)}

ParseAlphabet == {"x", "s", "2", "^", "(", ")", " ", "$"}

ParseInputs == UNION {[1..n -> ParseAlphabet] : n \in 0..MaxExprLen}

ClassifierOutcomes ==
    {[raises |-> TRUE, text |-> [lines |-> <<>>, payload |-> DefaultPayload]]}
    \cup {[raises |-> FALSE, text |-> x] : x \in ClassifierTexts}

(***************************************************************************)
(* State                                                                   *)
(***************************************************************************)
EmptyText == [lines |-> <<>>, payload |-> DefaultPayload]

NoResult == [status |-> "none"]

NoFile == [state |-> "missing", content |-> <<>>]

NoFetch ==
    [raises |-> FALSE, status |-> "absent", has_context |-> FALSE,
     relevant_context |-> <<>>]

\* the frame of an invocation that has not started
Fresh ==
    [pc |-> "idle", entry |-> "none", query |-> <<>>, fetcherGiven |-> FALSE,
     policyFile |-> NoFile, stages |-> <<>>, policy |-> <<>>,
     classifierLog |-> <<>>, output_text |-> EmptyText,
     routing_json |-> EmptyText, routing_decision |-> DefaultPayload,
     context_result |-> NoFetch, context |-> <<>>, fetcherLog |-> <<>>,
     opLog |-> <<>>, parserLog |-> <<>>, parseArg |-> <<>>,
     outcome |-> "none", result |-> NoResult]

\* the frame of the running invocation
Running ==
    [pc |-> pc, entry |-> entry, query |-> query,
     fetcherGiven |-> fetcherGiven, policyFile |-> policyFile,
     stages |-> stages, policy |-> policy, classifierLog |-> classifierLog,
     output_text |-> output_text, routing_json |-> routing_json,
     routing_decision |-> routing_decision,
     context_result |-> context_result, context |-> context,
     fetcherLog |-> fetcherLog, opLog |-> opLog, parserLog |-> parserLog,
     parseArg |-> parseArg, outcome |-> outcome, result |-> result]

Init ==
    /\ pc = "idle"
    /\ entry = "none"
    /\ query = <<>>
    /\ fetcherGiven = FALSE
    /\ policyFile = NoFile
    /\ stages = <<>>
    /\ policy = <<>>
    /\ classifierLog = <<>>
    /\ output_text = EmptyText
    /\ routing_json = EmptyText
    /\ routing_decision = DefaultPayload
    /\ context_result = NoFetch
    /\ context = <<>>
    /\ fetcherLog = <<>>
    /\ opLog = <<>>
    /\ parserLog = <<>>
    /\ parseArg = <<>>
    /\ outcome = "none"
    /\ result = NoResult
    /\ self = [client |-> "OpenAI"]
    /\ parked = Fresh

\* "return env"
Finish(env) ==
    /\ pc' = "done"
    /\ outcome' = "returned"
    /\ result' = env

\* an exception e raised inside the try block of solve_math
Except(e) ==
    /\ pc' = "done"
    /\ outcome' = OuterExcept(e, query).outcome
    /\ result' = OuterExcept(e, query).value

(***************************************************************************)
(* solve_math                                                              *)
(***************************************************************************)
SolveMathCall ==
    /\ pc = "idle"
    /\ \E q \in Queries, fg \in BOOLEAN, f \in PolicyFiles :
          /\ query' = q
          /\ fetcherGiven' = fg
          /\ policyFile' = f
    /\ entry' = "solve_math"
    /\ pc' = "load"
    /\ UNCHANGED <<shared, stages, locals, logs, parseArg, outcome, result>>


\* ClassifierRequest sending the extracted equation instead of the query
ClassifierRequestExtracted(system, q) ==
    [model |-> "gpt-4o-mini", system |-> system,
     user |-> <<"Query: ", _extract_equation_from_query(q)>>]

\* Step 1: load routing prompt
LoadPolicy ==
    /\ pc = "load"
    /\ stages' = Append(stages, "load")
    /\ CASE policyFile.state = "missing" ->
               Finish(PolicyNotFound(query)) /\ UNCHANGED policy
         [] policyFile.state = "unreadable" ->
               Except(<<"PermissionError">>) /\ UNCHANGED policy
         [] OTHER ->
               /\ policy' = Strip(policyFile.content)
               /\ pc' = "classify"
               /\ UNCHANGED <<outcome, result>>
    /\ UNCHANGED <<shared, frame, output_text, routing_json, routing_decision,
                   context_result, context, logs, parseArg>>

\* the call self.client.responses.create(...)
ClassifierRequest(system, q) ==
    [model |-> "gpt-4o-mini", system |-> system, user |-> <<"Query: ", q>>]

\* Step 2: get the routing decision
Classify ==
    /\ pc = "classify"
    /\ stages' = Append(stages, "classify")
    /\ classifierLog' = Append(classifierLog, ClassifierRequest(policy, query))
    /\ \E r \in ClassifierOutcomes :
          IF r.raises
          THEN Except(<<"APIError">>) /\ UNCHANGED output_text
          ELSE /\ output_text' = r.text
               /\ pc' = "parse"
               /\ UNCHANGED <<outcome, result>>
    /\ UNCHANGED <<shared, frame, policy, routing_json, routing_decision,
                   context_result, context, fetcherLog, opLog, parserLog,
                   parseArg>>

\* routing_decision.get("needs_context", False)
NeedsContext(decision) ==
    IF decision.needs_context = None THEN JBool(FALSE)
    ELSE decision.needs_context


\* FetchWanted without the needs_context test
FetchWantedAlways(decision, given) == given

\* Step 3: parse the routing decision, up to the "if not operation" check
ParseRouting ==
    /\ pc = "parse"
    /\ stages' = Append(stages, "parse")
    /\ LET cleaned == CleanRoutingJson(output_text)
           loaded == JsonLoads(cleaned)
       IN /\ routing_json' = cleaned
          /\ IF ~loaded.ok
             THEN Finish(InvalidJson(cleaned, query)) /\ UNCHANGED routing_decision
             ELSE IF ~loaded.isObject
             THEN Except(<<"AttributeError">>) /\ UNCHANGED routing_decision
             ELSE /\ routing_decision' = loaded.value
                  /\ IF ~Truthy(loaded.value.operation)
                     THEN Finish(NoOperation(loaded.value, query))
                     ELSE pc' = "fetch" /\ UNCHANGED <<outcome, result>>
    /\ UNCHANGED <<shared, frame, policy, output_text, context_result, context, logs,
                   parseArg>>

\* Is the context fetcher called?  "if needs_context and context_fetcher_func"
FetchWanted(decision, given) == Truthy(NeedsContext(decision)) /\ given

\* the context taken from the fetcher's result
ContextOf(f) ==
    IF f.status = "success" /\ f.has_context THEN f.relevant_context ELSE <<>>

\* Step 4: get context if needed
FetchContext ==
    /\ pc = "fetch"
    /\ FetchWanted(routing_decision, fetcherGiven)
    /\ stages' = Append(stages, "fetch")
    /\ fetcherLog' = Append(fetcherLog, query)
    /\ \E f \in FetcherOutcomes :
          /\ context_result' = f
          /\ IF f.raises
             THEN Except(<<"ContextError">>) /\ UNCHANGED context
             ELSE /\ context' = ContextOf(f)
                  /\ pc' = "dispatch"
                  /\ UNCHANGED <<outcome, result>>
    /\ UNCHANGED <<shared, frame, policy, output_text, routing_json, routing_decision,
                   classifierLog, opLog, parserLog, parseArg>>

SkipContext ==
    /\ pc = "fetch"
    /\ ~FetchWanted(routing_decision, fetcherGiven)
    /\ stages' = Append(stages, "fetch")
    /\ pc' = "dispatch"
    /\ UNCHANGED <<shared, frame, locals, logs, parseArg, outcome, result>>

\* Dispatched handing over the text of the routing JSON's "query" key, when
\* there is one, in place of the text extracted from the query
DispatchedOnRoutedText(name, args, r) ==
    /\ stages' = Append(stages, "dispatch")
    /\ opLog' = Append(opLog,
                       [name |-> name,
                        args |-> [k \in DOMAIN args |->
                                    IF /\ k \in {"equation", "expression"}
                                       /\ routing_decision.query # None
                                    THEN <<routing_decision.query.v>>
                                    ELSE args[k]],
                        ret |-> r.ret])
    /\ parserLog' = parserLog \o r.parsed
    /\ Finish(Annotate(r.ret, routing_decision.operation,
                       NeedsContext(routing_decision), context, routing_json))
    /\ UNCHANGED <<shared, frame, locals, classifierLog, fetcherLog, parseArg>>

\* Dispatched handing the context over to the operation in front of the text
\* extracted from the query
DispatchedWithContext(name, args, r) ==
    /\ stages' = Append(stages, "dispatch")
    /\ opLog' = Append(opLog,
                       [name |-> name,
                        args |-> [k \in DOMAIN args |->
                                    IF k \in {"equation", "expression"}
                                    THEN context \o args[k]
                                    ELSE args[k]],
                        ret |-> r.ret])
    /\ parserLog' = parserLog \o r.parsed
    /\ Finish(Annotate(r.ret, routing_decision.operation,
                       NeedsContext(routing_decision), context, routing_json))
    /\ UNCHANGED <<shared, frame, locals, classifierLog, fetcherLog, parseArg>>

\* Steps 5 and 6 for one branch of the if/elif chain: the operation name is
\* called with args, returns r.ret, and the routing metadata is added
Dispatched(name, args, r) ==
    /\ stages' = Append(stages, "dispatch")
    /\ opLog' = Append(opLog, [name |-> name, args |-> args, ret |-> r.ret])
    /\ parserLog' = parserLog \o r.parsed
    /\ Finish(Annotate(r.ret, routing_decision.operation,
                       NeedsContext(routing_decision), context, routing_json))
    /\ UNCHANGED <<shared, frame, locals, classifierLog, fetcherLog, parseArg>>

\* the branch of the if/elif chain of Step 5 that an operation value takes
Branch(operation) ==
    IF operation.t = "str" /\ operation.v \in SixOperations
    THEN operation.v ELSE "else"

DispatchSolveEquation ==
    /\ pc = "dispatch"
    /\ Branch(routing_decision.operation) = "solve_equation"
    /\ LET equation_text == _extract_equation_from_query(query)
       IN \E o \in EngineOutcomes :
             Dispatched("solve_equation",
                        [equation |-> equation_text, variable |-> <<"x">>],
                        solve_equation(equation_text, <<"x">>, o))

DispatchSimplifyExpression ==
    /\ pc = "dispatch"
    /\ Branch(routing_decision.operation) = "simplify_expression"
    /\ LET expression_text == _extract_expression_from_query(query)
       IN \E o \in EngineOutcomes :
             Dispatched("simplify_expression",
                        [expression |-> expression_text],
                        simplify_expression(expression_text, o))

DispatchCalculateDerivative ==
    /\ pc = "dispatch"
    /\ Branch(routing_decision.operation) = "calculate_derivative"
    /\ LET expression_text == _extract_expression_from_query(query)
           params == _extract_derivative_params(query)
       IN \E o \in EngineOutcomes :
             Dispatched("calculate_derivative",
                        [expression |-> expression_text,
                         variable |-> params.variable,
                         order |-> params.order],
                        calculate_derivative(expression_text, params.variable,
                                             params.order, o))

DispatchCalculateIntegral ==
    /\ pc = "dispatch"
    /\ Branch(routing_decision.operation) = "calculate_integral"
    /\ LET expression_text == _extract_expression_from_query(query)
           params == _extract_integral_params(query)
       IN \E o \in EngineOutcomes :
             Dispatched("calculate_integral",
                        [expression |-> expression_text,
                         variable |-> params.variable,
                         limits |-> params.limits],
                        calculate_integral(expression_text, params.variable,
                                           params.limits, o))

DispatchFactorExpression ==
    /\ pc = "dispatch"
    /\ Branch(routing_decision.operation) = "factor_expression"
    /\ LET expression_text == _extract_expression_from_query(query)
       IN \E o \in EngineOutcomes :
             Dispatched("factor_expression",
                        [expression |-> expression_text],
                        factor_expression(expression_text, o))

DispatchCalculateComplexArithmetic ==
    /\ pc = "dispatch"
    /\ Branch(routing_decision.operation) = "calculate_complex_arithmetic"
    /\ LET expression_text == _extract_arithmetic_from_query(query)
       IN \E o \in ArithmeticOutcomesOf(CleanArithmetic(expression_text)) :
             Dispatched("calculate_complex_arithmetic",
                        [expression |-> expression_text],
                        calculate_complex_arithmetic(expression_text, o))

\* the final else of Step 5
DispatchUnknown ==
    /\ pc = "dispatch"
    /\ Branch(routing_decision.operation) = "else"
    /\ stages' = Append(stages, "dispatch")
    /\ Finish(UnknownOperation(routing_decision.operation, query))
    /\ UNCHANGED <<shared, frame, locals, logs, parseArg>>

(***************************************************************************)
(* Direct calls of the six operations and of _parse_expression_safely      *)
(***************************************************************************)
Called(name, args, r) ==
    /\ entry' = name
    /\ opLog' = <<[name |-> name, args |-> args, ret |-> r.ret]>>
    /\ parserLog' = r.parsed
    /\ Finish(r.ret)
    /\ UNCHANGED <<shared, query, fetcherGiven, policyFile, stages, locals,
                   classifierLog, fetcherLog, parseArg>>

SolveEquationCall ==
    /\ pc = "idle"
    /\ \E e \in Expressions, v \in Variables, o \in EngineOutcomes :
          Called("solve_equation", [equation |-> e, variable |-> v],
                 solve_equation(e, v, o))

SimplifyExpressionCall ==
    /\ pc = "idle"
    /\ \E e \in Expressions, o \in EngineOutcomes :
          Called("simplify_expression", [expression |-> e],
                 simplify_expression(e, o))

CalculateDerivativeCall ==
    /\ pc = "idle"
    /\ \E e \in Expressions, v \in Variables, n \in Orders,
          o \in EngineOutcomes :
          Called("calculate_derivative",
                 [expression |-> e, variable |-> v, order |-> n],
                 calculate_derivative(e, v, n, o))

CalculateIntegralCall ==
    /\ pc = "idle"
    /\ \E e \in Expressions, v \in Variables, l \in LimitsValues,
          o \in EngineOutcomes :
          Called("calculate_integral",
                 [expression |-> e, variable |-> v, limits |-> l],
                 calculate_integral(e, v, l, o))

FactorExpressionCall ==
    /\ pc = "idle"
    /\ \E e \in Expressions, o \in EngineOutcomes :
          Called("factor_expression", [expression |-> e],
                 factor_expression(e, o))

CalculateComplexArithmeticCall ==
    /\ pc = "idle"
    /\ \E e \in Expressions :
          \E o \in ArithmeticOutcomesOf(CleanArithmetic(e)) :
             Called("calculate_complex_arithmetic", [expression |-> e],
                    calculate_complex_arithmetic(e, o))

\* One of the five parameter extractors was called on q and returned value
Extracted(name, q, value) ==
    /\ pc = "idle"
    /\ pc' = "done"
    /\ entry' = name
    /\ query' = q
    /\ outcome' = "returned"
    /\ result' = value
    /\ UNCHANGED <<shared, fetcherGiven, policyFile, stages, locals, logs,
                   parseArg>>

\* queries with an arithmetic expression: no, one or several words, then two
\* numbers joined by an operator
ArithmeticParts ==
    [words |-> {<<>>, <<"c", "a", "l", "c", "u", "l", "a", "t", "e", " ">>, <<"w", "h", "a", "t", " ", "i", "s", " ">>,
               <<"f", "i", "n", "d", " ", "t", "h", "e", " ", "r", "e", "s", "u", "l", "t", " ", "o", "f", " ">>},
     numbers |-> {<<"2">>, <<"1", "2">>, <<"3", ".", "5">>}]

ExtractArithmeticCall ==
    \E q \in {w \o a \o <<op>> \o b :
                 w \in ArithmeticParts.words, a \in ArithmeticParts.numbers,
                 op \in {"+", "-", "*", "/"}, b \in ArithmeticParts.numbers} :
       Extracted("_extract_arithmetic_from_query", q,
                 [text |-> _extract_arithmetic_from_query(q)])

\* queries about integrals: what stands before the limits, the tokens that
\* serve as limits, and queries without limits
IntegralParts ==
    [stems |-> {<<"i", "n", "t", "e", "g", "r", "a", "t", "e", " ", "x", " ">>,
               <<"i", "n", "t", "e", "g", "r", "a", "l", " ", "o", "f", " ", "s", "i", "n", "(", "x", ")", " ">>},
     tokens |-> {<<"0">>,
                <<"1">>,
                <<"p", "i">>,
                <<"2", "*", "p", "i">>,
                <<"t">>,
                <<"a">>},
     plain |-> {<<"i", "n", "t", "e", "g", "r", "a", "t", "e", " ", "x", "^", "2">>,
               <<"i", "n", "t", "e", "g", "r", "a", "t", "e", " ", "f">>,
               <<"f", "i", "n", "d", " ", "t", "h", "e", " ", "i", "n", "t", "e", "g", "r", "a", "l", " ", "o", "f", " ", "s", "i", "n", "(", "t", ")", " ", "w", "i", "t", "h", " ", "r", "e", "s", "p", "e", "c", "t", " ", "t", "o", " ", "t">>,
               <<"f", "i", "n", "d", " ", "t", "h", "e", " ", "d", "e", "f", "i", "n", "i", "t", "e", " ", "i", "n", "t", "e", "g", "r", "a", "l", " ", "o", "f", " ", "2", "x", "+", "1">>,
               <<"i", "n", "t", "e", "g", "r", "a", "t", "e", " ", "x", " ", "d", "x">>}]

\* a query that gives the limits A and B in one of the three notations
LimitsQuery(stem, notation, A, B) ==
    CASE notation = "from" -> stem \o Words.from \o <<" ">> \o A \o <<" ">>
                              \o Words.to \o <<" ">> \o B
      [] notation = "between" -> stem \o Words.between \o <<" ">> \o A \o <<" ">>
                                 \o Words.and \o <<" ">> \o B
      [] notation = "bracket" -> stem \o <<"[">> \o A \o <<",", " ">> \o B \o <<"]">>

ExtractIntegralParamsCall ==
    \E q \in IntegralParts.plain
             \cup {LimitsQuery(stem, notation, A, B) :
                     stem \in IntegralParts.stems,
                     notation \in {"from", "between", "bracket"},
                     A \in IntegralParts.tokens, B \in IntegralParts.tokens} :
       Extracted("_extract_integral_params", q, _extract_integral_params(q))

\* queries about derivatives: what stands before the variable, with the
\* order it asks for, and the words that serve as variables
DerivativeParts ==
    [stems |-> {[text |-> <<"f", "i", "n", "d", " ", "t", "h", "e", " ", "d", "e", "r", "i", "v", "a", "t", "i", "v", "e", " ", "o", "f", " ", "x", "^", "3">>,
                 order |-> 1],
                [text |-> <<"d", "e", "r", "i", "v", "a", "t", "i", "v", "e", " ", "o", "f", " ", "f">>,
                 order |-> 1],
                [text |-> <<"d", "i", "f", "f", "e", "r", "e", "n", "t", "i", "a", "t", "e", " ", "f", "(", "t", ")">>,
                 order |-> 1],
                [text |-> <<"w", "h", "a", "t", " ", "i", "s", " ", "t", "h", "e", " ", "s", "e", "c", "o", "n", "d", " ", "d", "e", "r", "i", "v", "a", "t", "i", "v", "e", " ", "o", "f", " ", "x", "^", "4">>,
                 order |-> 2],
                [text |-> <<"f", "i", "n", "d", " ", "t", "h", "e", " ", "t", "h", "i", "r", "d", " ", "d", "e", "r", "i", "v", "a", "t", "i", "v", "e", " ", "o", "f", " ", "x", "^", "5">>,
                 order |-> 3],
                [text |-> <<"f", "i", "n", "d", " ", "t", "h", "e", " ", "5", "t", "h", " ", "d", "e", "r", "i", "v", "a", "t", "i", "v", "e">>,
                 order |-> 5],
                [text |-> <<"2", "n", "d", " ", "d", "e", "r", "i", "v", "a", "t", "i", "v", "e", " ", "o", "f", " ", "f">>,
                 order |-> 2],
                [text |-> <<"3", "r", "d", " ", "d", "e", "r", "i", "v", "a", "t", "i", "v", "e", " ", "o", "f", " ", "s", "i", "n", "(", "x", ")">>,
                 order |-> 3],
                [text |-> <<"1", "s", "t", " ", "d", "e", "r", "i", "v", "a", "t", "i", "v", "e", " ", "o", "f", " ", "f">>,
                 order |-> 1],
                [text |-> <<"1", "2", "t", "h", " ", "d", "e", "r", "i", "v", "a", "t", "i", "v", "e", " ", "o", "f", " ", "f">>,
                 order |-> 12]},
     variables |-> {<<"y">>, <<"t">>, <<"z">>, <<"T">>}]

\* the query that names the variable v after the stem
VariableQuery(stem, v) == stem.text \o <<" ">> \o Words.with_respect_to \o v

ExtractDerivativeParamsCall ==
    \E q \in {stem.text : stem \in DerivativeParts.stems}
             \cup {VariableQuery(stem, v) :
                     stem \in DerivativeParts.stems,
                     v \in DerivativeParts.variables} :
       Extracted("_extract_derivative_params", q, _extract_derivative_params(q))

\* queries about expressions: the phrases that name the operation, the
\* expressions, and the limits that may follow
ExpressionParts ==
    [prefixes |-> {<<"s", "i", "m", "p", "l", "i", "f", "y">>,
                  <<"d", "i", "f", "f", "e", "r", "e", "n", "t", "i", "a", "t", "e">>,
                  <<"i", "n", "t", "e", "g", "r", "a", "t", "e">>,
                  <<"f", "a", "c", "t", "o", "r">>,
                  <<"f", "a", "c", "t", "o", "r", "i", "z", "e">>,
                  <<"d", "e", "r", "i", "v", "a", "t", "i", "v", "e", " ", "o", "f">>,
                  <<"f", "i", "n", "d", " ", "t", "h", "e", " ", "d", "e", "r", "i", "v", "a", "t", "i", "v", "e", " ", "o", "f">>,
                  <<"c", "a", "l", "c", "u", "l", "a", "t", "e", " ", "t", "h", "e", " ", "i", "n", "t", "e", "g", "r", "a", "l", " ", "o", "f">>,
                  <<"w", "h", "a", "t", " ", "i", "s", " ", "t", "h", "e", " ", "d", "e", "r", "i", "v", "a", "t", "i", "v", "e", " ", "o", "f">>,
                  <<"t", "h", "e", " ", "i", "n", "t", "e", "g", "r", "a", "l", " ", "o", "f">>},
     expressions |-> {<<"x", "^", "2", " ", "+", " ", "2", "x", " ", "+", " ", "1">>,
                     <<"s", "i", "n", "(", "x", ")", "*", "c", "o", "s", "(", "x", ")">>,
                     <<"x", "*", "*", "2">>,
                     <<"t">>,
                     <<"X", "^", "2">>,
                     <<"x", "_", "1", " ", "+", " ", "2">>},
     limits |-> {<<>>,
                <<" ", "f", "r", "o", "m", " ", "0", " ", "t", "o", " ", "1">>,
                <<" ", "f", "r", "o", "m", " ", "a", " ", "t", "o", " ", "b">>}]

\* the query "<prefix> E" or "<prefix> E from A to B"
ExpressionQuery(prefix, E, limits) == prefix \o <<" ">> \o E \o limits

ExtractExpressionCall ==
    \E q \in {ExpressionQuery(prefix, E, limits) :
                 prefix \in ExpressionParts.prefixes,
                 E \in ExpressionParts.expressions,
                 limits \in ExpressionParts.limits} :
       Extracted("_extract_expression_from_query", q,
                 [text |-> _extract_expression_from_query(q)])

\* A resumed invocation finds its own frame: the locals of solve_math are
\* locals of the call, not fields of the instance.
ResumedWithSharedDecision(p) ==
    [p EXCEPT !.routing_decision = routing_decision]

Resumed(p) == p

Resume(f) ==
    /\ pc' = f.pc
    /\ entry' = f.entry
    /\ query' = f.query
    /\ fetcherGiven' = f.fetcherGiven
    /\ policyFile' = f.policyFile
    /\ stages' = f.stages
    /\ policy' = f.policy
    /\ classifierLog' = f.classifierLog
    /\ output_text' = f.output_text
    /\ routing_json' = f.routing_json
    /\ routing_decision' = f.routing_decision
    /\ context_result' = f.context_result
    /\ context' = f.context
    /\ fetcherLog' = f.fetcherLog
    /\ opLog' = f.opLog
    /\ parserLog' = f.parserLog
    /\ parseArg' = f.parseArg
    /\ outcome' = f.outcome
    /\ result' = f.result

\* the scheduler takes the running invocation off and puts the other one on
Switch ==
    /\ parked' = Running
    /\ Resume(Resumed(parked))
    /\ UNCHANGED self

\* the inputs of two invocations that run together: one query, the policy
\* file missing or present, a classifier that raises or answers with a JSON
\* object or with text that is no JSON, a fetcher that raises or returns a
\* context, an engine that succeeds
TwoQuery == <<"s", "o", "l", "v", "e", " ", "2", "x", "=", "4">>

TwoInputs ==
    /\ pc # "idle" => query = TwoQuery
    /\ policyFile.state \in {"missing", "present"}
    /\ output_text.lines \in {<<>>, <<"object">>, <<"garbage">>}
    /\ output_text.payload.needs_context \in {JBool(TRUE), None}
    /\ output_text.payload.query = None
    /\ context_result.status \in {"success", "absent"}
    /\ context_result.status = "success" => context_result.has_context
    /\ context_result.relevant_context
          \in {<<>>, TextOfLength(1), TextOfLength(TruncateAt + 1)}
    /\ opLog # <<>> => opLog[1].ret.status = "success"

\* Texts without "=" for the two ways of writing an equation with a zero
\* right-hand side
EquationAlphabet == {"x", "2", ",", " ", "$"}

EquationTexts == UNION {[1..n -> EquationAlphabet] : n \in 0..MaxExprLen}

\* the last position before i that holds no white space, 0 if there is none
NearestLeft(t, i) ==
    IF \A j \in 1..(i - 1) : t[j] \in Spaces THEN 0
    ELSE CHOOSE j \in 1..(i - 1) :
            /\ t[j] \notin Spaces
            /\ \A m \in (j + 1)..(i - 1) : t[m] \in Spaces

\* a comma with nothing before it: no Python expression
EmptyElement(t) ==
    \E i \in 1..Len(t) :
       /\ t[i] = ","
       /\ NearestLeft(t, i) = 0 \/ t[NearestLeft(t, i)] = ","

\* two operands with only white space between them
InnerSpace(t) ==
    \E i \in 1..Len(t), k \in 1..Len(t) :
       /\ i + 1 < k
       /\ t[i] \notin Spaces \cup {","}
       /\ t[k] \notin Spaces \cup {","}
       /\ \A m \in (i + 1)..(k - 1) : t[m] \in Spaces

\* What sympy.parse_expr can say of a text over letters, digits, "*", commas
\* and white space: it rejects an empty tuple element, accepts names and
\* numbers separated by commas, and the implicit multiplication of two
\* operands separated by white space is left open.
ParserVerdicts(t) ==
    IF EmptyElement(t) THEN {FALSE}
    ELSE IF InnerSpace(t) THEN BOOLEAN
    ELSE {TRUE}

\* solve_equation(e) and then solve_equation(e + "=0") on one engine: the
\* same text gets the same verdict of the parser, "0" parses, and the same
\* arguments of sympy.solve get the same roots.
Twice(e, v, o1, o2, a, b) ==
    /\ (a.solved # <<>> /\ a.solved = b.solved)
          => (o1.c = o2.c /\ o1.n = o2.n)
    /\ entry' = "solve_equation twice"
    /\ opLog' = <<[name |-> "solve_equation",
                   args |-> [equation |-> e, variable |-> v],
                   ret |-> a.ret],
                  [name |-> "solve_equation",
                   args |-> [equation |-> e \o <<"=", "0">>, variable |-> v],
                   ret |-> b.ret]>>
    /\ parserLog' = a.parsed \o b.parsed
    /\ Finish(b.ret)
    /\ UNCHANGED <<shared, query, fetcherGiven, policyFile, stages, locals,
                   classifierLog, fetcherLog, parseArg>>

SolveEquationTwice ==
    /\ pc = "idle"
    /\ \E e \in EquationTexts, v \in Variables,
          o1 \in EngineOutcomes, o2 \in EngineOutcomes :
          /\ o1.p1 \in ParserVerdicts(CleanExpression(e))
          /\ o2.p1 \in ParserVerdicts(CleanExpression(Strip(e)))
          /\ CleanExpression(e) = CleanExpression(Strip(e)) => o1.p1 = o2.p1
          /\ o2.p2
          /\ Twice(e, v, o1, o2, solve_equation(e, v, o1),
                   solve_equation(e \o <<"=", "0">>, v, o2))

ParseCall ==
    /\ pc = "idle"
    /\ \E e \in ParseInputs, ok \in BOOLEAN :
          LET r == ParseExpressionSafely(e, ok)
          IN /\ parseArg' = e
             /\ parserLog' = LogParseExpr(r.handed)
             /\ outcome' = IF r.raised THEN "raised" ELSE "returned"
             /\ result' = IF r.raised THEN [error |-> r.error]
                          ELSE [tree |-> r.tree]
    /\ entry' = "_parse_expression_safely"
    /\ pc' = "done"
    /\ UNCHANGED <<shared, query, fetcherGiven, policyFile, stages, locals,
                   classifierLog, fetcherLog, opLog>>

\* the call is over; the next one starts from a fresh frame
Return ==
    /\ pc = "done"
    /\ pc' = "idle"
    /\ entry' = "none"
    /\ query' = <<>>
    /\ fetcherGiven' = FALSE
    /\ policyFile' = NoFile
    /\ stages' = <<>>
    /\ policy' = <<>>
    /\ classifierLog' = <<>>
    /\ output_text' = EmptyText
    /\ routing_json' = EmptyText
    /\ routing_decision' = DefaultPayload
    /\ context_result' = NoFetch
    /\ context' = <<>>
    /\ fetcherLog' = <<>>
    /\ opLog' = <<>>
    /\ parserLog' = <<>>
    /\ parseArg' = <<>>
    /\ outcome' = "none"
    /\ result' = NoResult
    /\ UNCHANGED shared

(***************************************************************************)
(* Specifications                                                          *)
(***************************************************************************)
Next ==
    \/ SolveMathCall
    \/ LoadPolicy
    \/ Classify
    \/ ParseRouting
    \/ FetchContext
    \/ SkipContext
    \/ DispatchSolveEquation
    \/ DispatchSimplifyExpression
    \/ DispatchCalculateDerivative
    \/ DispatchCalculateIntegral
    \/ DispatchFactorExpression
    \/ DispatchCalculateComplexArithmetic
    \/ DispatchUnknown
    \/ SolveEquationCall
    \/ SimplifyExpressionCall
    \/ CalculateDerivativeCall
    \/ CalculateIntegralCall
    \/ FactorExpressionCall
    \/ CalculateComplexArithmeticCall
    \/ Return

Spec == Init /\ [][Next]_vars

\* _parse_expression_safely on every short text over ParseAlphabet
NextParse == ParseCall \/ Return

SpecParse == Init /\ [][NextParse]_vars

\* solve_equation on a text without "=" and on the same text followed by "=0"
NextTwice == SolveEquationTwice \/ Return

SpecTwice == Init /\ [][NextTwice]_vars

\* two solve_math invocations on one instance, interleaved at every step
NextTwo ==
    \/ SolveMathCall /\ TwoInputs'
    \/ LoadPolicy /\ TwoInputs'
    \/ Classify /\ TwoInputs'
    \/ ParseRouting /\ TwoInputs'
    \/ FetchContext /\ TwoInputs'
    \/ SkipContext /\ TwoInputs'
    \/ DispatchSolveEquation /\ TwoInputs'
    \/ DispatchSimplifyExpression /\ TwoInputs'
    \/ DispatchCalculateDerivative /\ TwoInputs'
    \/ DispatchCalculateIntegral /\ TwoInputs'
    \/ DispatchFactorExpression /\ TwoInputs'
    \/ DispatchCalculateComplexArithmetic /\ TwoInputs'
    \/ DispatchUnknown /\ TwoInputs'
    \/ Switch

SpecTwo == Init /\ [][NextTwo]_vars

\* the parameter extractors, each on queries of the forms it looks for
NextExtract ==
    \/ ExtractArithmeticCall
    \/ ExtractIntegralParamsCall
    \/ ExtractDerivativeParamsCall
    \/ ExtractExpressionCall
    \/ Return

SpecExtract == Init /\ [][NextExtract]_vars

(***************************************************************************)
(* Properties                                                              *)
(***************************************************************************)
\* C1: _parse_expression_safely applies the allow-list as an unconditional
\* pre-filter: for every input with a character outside
\* [A-Za-z0-9+-*/()^=.,_ and whitespace] the call fails with the
\* invalid-expression error and no text is handed to the symbolic parser.
C1_PreFilterUnconditional ==
    LET allowList == LowerLetters \cup UpperLetters \cup Digits \cup Spaces
                     \cup {"+", "-", "*", "/", "(", ")", "^", "=", ".", ",", "_"}
    IN (/\ pc = "done"
        /\ entry = "_parse_expression_safely"
        /\ \E i \in 1..Len(parseArg) : parseArg[i] \notin allowList)
       => /\ outcome = "raised"
          /\ result.error[1] = "Invalid mathematical expression: "
          /\ parserLog = <<>>

\* a text with an allowed and a forbidden character was rejected
C1_Witness ==
    /\ pc = "done"
    /\ entry = "_parse_expression_safely"
    /\ \E i \in 1..Len(parseArg) : parseArg[i] = "$"
    /\ \E i \in 1..Len(parseArg) : parseArg[i] = "x"
    /\ outcome = "raised"
    /\ parserLog = <<>>

\* C2: no exception leaves the core: each of the six operations and
\* solve_math ends by returning an envelope whose status is "success" or
\* "error", whatever the classifier and the context fetcher do (raising
\* included).
C2_NoExceptionLeaves ==
    (pc = "done" /\ entry \in SixOperations \cup {"solve_math"})
    => /\ outcome = "returned"
       /\ "status" \in DOMAIN result
       /\ result.status \in {"success", "error"}

\* the context fetcher raised and solve_math returned an error envelope
C2_Witness ==
    /\ pc = "done"
    /\ entry = "solve_math"
    /\ Len(fetcherLog) = 1
    /\ context_result.raises
    /\ outcome = "returned"
    /\ result.status = "error"

\* C3: every envelope with status "error" returned by one of the six
\* operations or by solve_math carries a "message" that is present and
\* non-empty.
C3_ErrorHasMessage ==
    (/\ pc = "done"
     /\ entry \in SixOperations \cup {"solve_math"}
     /\ outcome = "returned"
     /\ result.status = "error")
    => /\ "message" \in DOMAIN result
       /\ Len(result.message) > 0
       /\ result.message[1] # ""

\* solve_math returned the error envelope of the operation it dispatched
C3_Witness ==
    /\ pc = "done"
    /\ entry = "solve_math"
    /\ Len(opLog) = 1
    /\ outcome = "returned"
    /\ result.status = "error"
    /\ result.message[1] # ""

\* C4: if the routing decision's operation is a value that is not one of
\* the six known names, solve_math returns status "error" with the message
\* "Unknown operation: <value>" and calls none of the six operations.
C4_ClosedDispatch ==
    (/\ pc = "done"
     /\ entry = "solve_math"
     /\ Truthy(routing_decision.operation)
     /\ Branch(routing_decision.operation) = "else")
    => /\ outcome = "returned"
       /\ result.status = "error"
       /\ result.message[1] = "Unknown operation: "
       /\ result.message[2] = routing_decision.operation.v
       /\ opLog = <<>>

\* C5: an unrecognized operation value ends solve_math in the Classify
\* stage, before the Fetch-context stage: on a run whose routing decision
\* names an unknown operation the context fetcher is never called.
C5_UnknownEndsBeforeFetch ==
    (/\ entry = "solve_math"
     /\ Truthy(routing_decision.operation)
     /\ Branch(routing_decision.operation) = "else")
    => fetcherLog = <<>>

\* C6: if the classifier output, after fence stripping, is not valid JSON,
\* solve_math returns status "error" with a message that holds "Invalid JSON
\* from routing LLM" and the text that failed to parse, and neither the
\* context fetcher nor an operation is called.
C6_InvalidJsonTerminal ==
    (/\ pc = "done"
     /\ entry = "solve_math"
     /\ \E i \in 1..Len(stages) : stages[i] = "parse"
     /\ ~JsonLoads(CleanRoutingJson(output_text)).ok)
    => /\ outcome = "returned"
       /\ result.status = "error"
       /\ Len(result.message) >= 2
       /\ result.message[1] = "Invalid JSON from routing LLM: "
       /\ result.message[2] = CleanRoutingJson(output_text)
       /\ fetcherLog = <<>>
       /\ opLog = <<>>

\* a fenced response that holds no JSON was reported
C6_Witness ==
    /\ pc = "done"
    /\ entry = "solve_math"
    /\ output_text.lines = <<"fencejson", "garbage", "fence">>
    /\ result.status = "error"
    /\ result.message[1] = "Invalid JSON from routing LLM: "
    /\ result.message[2].lines = <<"garbage">>

\* C7: if the routing policy file is not found, solve_math returns status
\* "error" with "Math routing prompt file not found" and the classifier is
\* never called; if the policy loads, the classifier is called exactly once
\* per invocation, with the policy text as instructions and the raw query as
\* input.
C7_ClassifierCalledOnce ==
    /\ Len(classifierLog) <= 1
    /\ (pc = "done" /\ entry = "solve_math" /\ policyFile.state = "missing")
       => /\ result.status = "error"
          /\ result.message[1] = "Math routing prompt file not found: "
          /\ classifierLog = <<>>
    /\ (pc = "done" /\ entry = "solve_math" /\ policyFile.state = "present")
       => /\ Len(classifierLog) = 1
          /\ classifierLog[1].system = Strip(policyFile.content)
          /\ classifierLog[1].user = <<"Query: ", query>>

\* a query went to the classifier once and was then dispatched
C7_Witness ==
    /\ pc = "done"
    /\ entry = "solve_math"
    /\ policyFile.state = "present"
    /\ query # <<>>
    /\ Len(classifierLog) = 1
    /\ Len(opLog) = 1

\* C8: within one solve_math invocation the context fetcher is called at
\* most once, and only when the routing decision's needs_context is true.
C8_ConditionalFetch ==
    /\ Len(fetcherLog) <= 1
    /\ fetcherLog # <<>> => routing_decision.needs_context = JBool(TRUE)
    /\ (pc = "done" /\ routing_decision.needs_context # JBool(TRUE))
       => fetcherLog = <<>>

\* the fetcher was called once, and the operation ran after it
C8_Witness ==
    /\ pc = "done"
    /\ entry = "solve_math"
    /\ Len(fetcherLog) = 1
    /\ fetcherLog[1] = query
    /\ Len(opLog) = 1

\* C9: whenever needs_context is true and the context fetcher fails (it
\* returns a non-success envelope or raises), solve_math still dispatches the
\* routed operation, returns that operation's result, and
\* routing_decision.context_content is the empty string.
C9_FetchFailureRecovered ==
    (/\ pc = "done"
     /\ entry = "solve_math"
     /\ Len(fetcherLog) = 1
     /\ context_result.raises \/ context_result.status # "success"
     /\ Branch(routing_decision.operation) # "else")
    => /\ outcome = "returned"
       /\ Len(opLog) = 1
       /\ opLog[1].name = routing_decision.operation.v
       /\ "routing_decision" \in DOMAIN result
       /\ result.routing_decision.context_content = <<>>
       /\ \A k \in DOMAIN opLog[1].ret : result[k] = opLog[1].ret[k]

\* C10: for each of the six operation values solve_math calls exactly the
\* operation of that name, exactly once, and no other operation; the
\* envelope it returns holds every field of that operation's envelope
\* unchanged, plus a routing_decision whose operation is the routed value.
C10_MatchingDispatch ==
    (/\ pc = "done"
     /\ entry = "solve_math"
     /\ Branch(routing_decision.operation) # "else")
    => /\ outcome = "returned"
       /\ Len(opLog) = 1
       /\ opLog[1].name = routing_decision.operation.v
       /\ DOMAIN result = DOMAIN opLog[1].ret \cup {"routing_decision"}
       /\ \A k \in DOMAIN opLog[1].ret : result[k] = opLog[1].ret[k]
       /\ result.routing_decision.operation = routing_decision.operation.v

\* C11: every envelope returned by solve_math, success or error, carries the
\* original query unchanged under the key "query".
C11_QueryInEveryEnvelope ==
    (pc = "done" /\ entry = "solve_math" /\ outcome = "returned")
    => /\ "query" \in DOMAIN result
       /\ result.query = query

\* C12: for every classifier response that leads to a dispatch, fenced
\* responses included, routing_decision.routing_json equals the text the
\* classifier returned.
C12_RoutingJsonIsRaw ==
    (/\ pc = "done"
     /\ entry = "solve_math"
     /\ "routing_decision" \in DOMAIN result)
    => result.routing_decision.routing_json = output_text

\* C13: in every envelope of solve_math that carries a routing_decision,
\* context_used is the classifier's needs_context flag (false when the flag
\* is absent): when the flag is true and the context fetch fails,
\* context_used is true and context_content is empty; when the flag is
\* false, context_used is false and context_content is empty.
C13_ContextUsedIsFlag ==
    (/\ pc = "done"
     /\ entry = "solve_math"
     /\ "routing_decision" \in DOMAIN result)
    => LET flag == output_text.payload.needs_context
           rd == result.routing_decision
       IN /\ flag = JBool(TRUE) => rd.context_used = JBool(TRUE)
          /\ (/\ flag = JBool(TRUE)
              /\ fetcherLog # <<>>
              /\ context_result.status # "success")
             => rd.context_content = <<>>
          /\ flag \in {JBool(FALSE), None}
             => /\ rd.context_used = JBool(FALSE)
                /\ rd.context_content = <<>>

\* the fetcher returned an error envelope and the operation still ran
C13_Witness ==
    /\ pc = "done"
    /\ entry = "solve_math"
    /\ Len(fetcherLog) = 1
    /\ context_result.status = "error"
    /\ "routing_decision" \in DOMAIN result
    /\ result.routing_decision.context_used = JBool(TRUE)
    /\ result.routing_decision.context_content = <<>>

\* C14: a fetched context of at most 100 characters is context_content as it
\* is; a longer one is cut to its first 100 characters followed by "...",
\* so context_content never has more than 103 characters.
C14_ContextTruncation ==
    (/\ pc = "done"
     /\ entry = "solve_math"
     /\ "routing_decision" \in DOMAIN result)
    => LET fetched == IF /\ fetcherLog # <<>>
                         /\ context_result.status = "success"
                         /\ context_result.has_context
                      THEN context_result.relevant_context ELSE <<>>
           content == result.routing_decision.context_content
       IN /\ Len(fetched) <= 100 => content = fetched
          /\ Len(fetched) > 100
             => content = SubSeq(fetched, 1, 100) \o <<".", ".", ".">>
          /\ Len(content) <= 103

\* a context of 101 characters was cut to 100 characters and "..."
C14_Witness ==
    /\ pc = "done"
    /\ entry = "solve_math"
    /\ Len(context_result.relevant_context) = 101
    /\ "routing_decision" \in DOMAIN result
    /\ Len(result.routing_decision.context_content) = 103
    /\ SubSeq(result.routing_decision.context_content, 101, 103) = <<".", ".", ".">>

\* C15 as stated: a successful calculate_integral without limits has
\* integral_type "indefinite", one with a list of exactly 2 limits has
\* "definite"; with a list of exactly 1 or of more than 2 limits the call
\* returns status "error" with the message about exactly 2 values and
\* integrates nothing.
C15_LimitsPolicy ==
    (pc = "done" /\ opLog # <<>> /\ opLog[1].name = "calculate_integral")
    => LET limits == opLog[1].args.limits
           ret == opLog[1].ret
       IN /\ (ret.status = "success" /\ limits.isNone)
             => ret.integral_type = "indefinite"
          /\ (ret.status = "success" /\ ~limits.isNone /\ Len(limits.items) = 2)
             => ret.integral_type = "definite"
          /\ (~limits.isNone /\ (Len(limits.items) = 1 \/ Len(limits.items) > 2))
             => /\ ret.status = "error"
                /\ ret.message[4] = LimitsError
                /\ "integral" \notin DOMAIN ret

\* C15 amended: as C15, but with a list of exactly 1 or of more than 2
\* limits the message is the one about exactly 2 values only when
\* _parse_expression_safely accepts the expression; when it rejects the
\* expression, its error is the one reported.
C15_LimitsPolicyAfterParsing ==
    (pc = "done" /\ opLog # <<>> /\ opLog[1].name = "calculate_integral")
    => LET limits == opLog[1].args.limits
           expression == opLog[1].args.expression
           ret == opLog[1].ret
           rejected == {r \in {ParseExpressionSafely(expression, ok) :
                                  ok \in BOOLEAN} : r.raised}
       IN /\ (ret.status = "success" /\ limits.isNone)
             => ret.integral_type = "indefinite"
          /\ (ret.status = "success" /\ ~limits.isNone /\ Len(limits.items) = 2)
             => ret.integral_type = "definite"
          /\ (~limits.isNone /\ (Len(limits.items) = 1 \/ Len(limits.items) > 2))
             => /\ ret.status = "error"
                /\ "integral" \notin DOMAIN ret
                /\ \/ ret.message[4] = LimitsError
                   \/ \E r \in rejected : ret.message[4] = r.error

\* a list of three limits was refused for an expression that parses
C15_Witness ==
    /\ pc = "done"
    /\ entry = "calculate_integral"
    /\ opLog[1].args.expression = <<"x", "^", "2">>
    /\ Len(opLog[1].args.limits.items) = 3
    /\ result.status = "error"
    /\ result.message[4] = LimitsError

\* C16: on every success envelope of calculate_complex_arithmetic the result
\* is an int or a float and never another type, and a whole value is
\* returned as an int.
C16_NumericPolicy ==
    (/\ pc = "done"
     /\ opLog # <<>>
     /\ opLog[1].name = "calculate_complex_arithmetic"
     /\ opLog[1].ret.status = "success")
    => /\ opLog[1].ret.result.type \in {"int", "float"}
       /\ opLog[1].ret.result.whole => opLog[1].ret.result.type = "int"

\* C17: for every equation text without "=", solve_equation of the text and
\* solve_equation of the text followed by "=0" end with the same status and,
\* on success, the same solutions and solution_count.
C17_ZeroEquivalence ==
    (pc = "done" /\ entry = "solve_equation twice")
    => /\ opLog[1].ret.status = opLog[2].ret.status
       /\ opLog[1].ret.status = "success"
             => /\ opLog[1].ret.solutions = opLog[2].ret.solutions
                /\ opLog[1].ret.solution_count = opLog[2].ret.solution_count

\* the same, for the texts that hold no comma
C17_ZeroEquivalenceOfExpressions ==
    (/\ pc = "done"
     /\ entry = "solve_equation twice"
     /\ ~HasChar(opLog[1].args.equation, ","))
    => /\ opLog[1].ret.status = opLog[2].ret.status
       /\ opLog[1].ret.status = "success"
             => /\ opLog[1].ret.solutions = opLog[2].ret.solutions
                /\ opLog[1].ret.solution_count = opLog[2].ret.solution_count

\* A response that is one JSON document between an opening fence (``` or
\* ```json) and a closing fence, and the same document without the fences
FencedPayload(text) ==
    /\ Len(StripLines(text.lines)) = 3
    /\ StripLines(text.lines)[1] \in {"fence", "fencejson"}
    /\ StripLines(text.lines)[2] \in {"object", "document"}
    /\ StripLines(text.lines)[3] = "fence"

BarePayload(text) ==
    [lines |-> <<StripLines(text.lines)[2]>>, payload |-> text.payload]

\* C18: a classifier response that is a JSON payload wrapped in a Markdown
\* fence is parsed as the bare payload is: the text handed to json.loads, its
\* outcome, the routing decision and the operation dispatched to are those of
\* the payload without the fence.
C18_FenceRoundTrip ==
    (/\ \E i \in 1..Len(stages) : stages[i] = "parse"
     /\ FencedPayload(output_text))
    => /\ routing_json = CleanRoutingJson(BarePayload(output_text))
       /\ JsonLoads(routing_json) = JsonLoads(BarePayload(output_text))
       /\ JsonLoads(BarePayload(output_text)).isObject
             => routing_decision = JsonLoads(BarePayload(output_text)).value
       /\ (pc = "done" /\ opLog # <<>>)
             => opLog[1].name = Branch(output_text.payload.operation)

C18_Witness ==
    /\ pc = "done"
    /\ output_text.lines = <<"fencejson", "object", "fence">>
    /\ opLog # <<>>
    /\ opLog[1].name = "solve_equation"
    /\ result.status = "success"

\* the prefixes of the Classify stage, and those of the other stages
ClassifyPrefixes ==
    {"Invalid JSON from routing LLM: ",
     "No operation specified in routing decision: ",
     "Unknown operation: "}

OtherPrefixes ==
    {"Math routing prompt file not found: ",
     "Error in math routing: ",
     "Error solving equation '",
     "Error simplifying expression '",
     "Error calculating derivative of '",
     "Error calculating integral of '",
     "Error factoring expression '",
     "Error calculating arithmetic expression '"}

\* the classifier's output is no JSON object, has no operation, or names an
\* operation that is none of the six
ClassifyFailure(text) ==
    \/ ~JsonLoads(text).ok
    \/ ~JsonLoads(text).isObject
    \/ ~Truthy(JsonLoads(text).value.operation)
    \/ Branch(JsonLoads(text).value.operation) = "else"

\* C19: the message prefixes of the stages are pairwise distinct, and every
\* failure of the Classify stage (output that is no JSON object, no operation,
\* unknown operation) is reported with one of the three Classify prefixes.
C19_StageByPrefix ==
    /\ ClassifyPrefixes \cap OtherPrefixes = {}
    /\ Cardinality(ClassifyPrefixes) = 3
    /\ (/\ pc = "done"
        /\ entry = "solve_math"
        /\ \E i \in 1..Len(stages) : stages[i] = "parse"
        /\ ClassifyFailure(routing_json))
       => /\ outcome = "returned"
          /\ result.status = "error"
          /\ result.message[1] \in ClassifyPrefixes

\* the same without the two cases in which the enclosing except clause
\* reports the failure: JSON that is no object, and a context fetcher that
\* raises before the dispatch
C19_StageByPrefixOfObjects ==
    (/\ pc = "done"
     /\ entry = "solve_math"
     /\ \E i \in 1..Len(stages) : stages[i] = "parse"
     /\ ClassifyFailure(routing_json)
     /\ ~JsonLoads(routing_json).ok \/ JsonLoads(routing_json).isObject
     /\ ~context_result.raises)
    => /\ outcome = "returned"
       /\ result.status = "error"
       /\ result.message[1] \in ClassifyPrefixes

\* The envelope that the inputs of an invocation determine when it runs
\* alone: f is its frame, cleaned the text handed to json.loads, loaded what
\* json.loads makes of it, d the routing decision.
EnvelopeOfDispatch(f, cleaned, d) ==
    IF FetchWanted(d, f.fetcherGiven) /\ f.context_result.raises
    THEN OuterExcept(<<"ContextError">>, f.query).value
    ELSE IF Branch(d.operation) = "else"
    THEN UnknownOperation(d.operation, f.query)
    ELSE IF f.opLog = <<>> THEN NoResult
    ELSE Annotate(f.opLog[1].ret, d.operation, NeedsContext(d),
                  IF FetchWanted(d, f.fetcherGiven)
                  THEN ContextOf(f.context_result) ELSE <<>>,
                  cleaned)

EnvelopeOfParse(f, cleaned, loaded) ==
    IF ~loaded.ok THEN InvalidJson(cleaned, f.query)
    ELSE IF ~loaded.isObject
    THEN OuterExcept(<<"AttributeError">>, f.query).value
    ELSE IF ~Truthy(loaded.value.operation)
    THEN NoOperation(loaded.value, f.query)
    ELSE EnvelopeOfDispatch(f, cleaned, loaded.value)

EnvelopeOf(f) ==
    IF f.policyFile.state = "missing" THEN PolicyNotFound(f.query)
    ELSE IF f.policyFile.state = "unreadable"
    THEN OuterExcept(<<"PermissionError">>, f.query).value
    ELSE IF Len(f.stages) = 2
    THEN OuterExcept(<<"APIError">>, f.query).value
    ELSE EnvelopeOfParse(f, CleanRoutingJson(f.output_text),
                         JsonLoads(CleanRoutingJson(f.output_text)))

\* the operation an invocation calls is the one its own classifier named
OwnDispatch(f) ==
    f.opLog # <<>>
    => f.opLog[1].name
         = Branch(JsonLoads(CleanRoutingJson(f.output_text)).value.operation)

\* C20: solve_math invocations are independent: no step changes a field of
\* the instance, and however two invocations are interleaved, the envelope
\* of each is the one its own query, policy file, classifier response and
\* fetcher response determine when it runs alone.
C20_Independent ==
    /\ self = [client |-> "OpenAI"]
    /\ (pc = "done" /\ entry = "solve_math")
          => (result = EnvelopeOf(Running) /\ OwnDispatch(Running))
    /\ (parked.pc = "done" /\ parked.entry = "solve_math")
          => (parked.result = EnvelopeOf(parked) /\ OwnDispatch(parked))

\* an invocation returns its success envelope while another one, with another
\* routing decision, is suspended before its dispatch
C20_Witness ==
    /\ pc = "done"
    /\ result.status = "success"
    /\ result.routing_decision.operation = "solve_equation"
    /\ parked.pc = "dispatch"
    /\ parked.routing_decision.operation = JStr("factor_expression")
    /\ parked.context # <<>>

\* the arguments of the operation that solve_math calls for an operation
\* name and a query
OperationArguments(name, q) ==
    CASE name = "solve_equation" ->
           [equation |-> _extract_equation_from_query(q), variable |-> <<"x">>]
      [] name = "calculate_derivative" ->
           [expression |-> _extract_expression_from_query(q),
            variable |-> _extract_derivative_params(q).variable,
            order |-> _extract_derivative_params(q).order]
      [] name = "calculate_integral" ->
           [expression |-> _extract_expression_from_query(q),
            variable |-> _extract_integral_params(q).variable,
            limits |-> _extract_integral_params(q).limits]
      [] name = "calculate_complex_arithmetic" ->
           [expression |-> _extract_arithmetic_from_query(q)]
      [] OTHER -> [expression |-> _extract_expression_from_query(q)]

\* C21: the arguments handed to the operation are determined by the query
\* and the operation value alone, whatever needs_context, the other keys of
\* the routing JSON, the fences around it and the context are.
C21_ArgumentsFromQuery ==
    (entry = "solve_math" /\ opLog # <<>>)
    => /\ opLog[1].name = routing_decision.operation.v
       /\ opLog[1].args = OperationArguments(opLog[1].name, query)

C21_Witness ==
    /\ pc = "done"
    /\ entry = "solve_math"
    /\ opLog # <<>>
    /\ opLog[1].name = "calculate_integral"
    /\ opLog[1].args.limits # NoLimits
    /\ routing_decision.query # None
    /\ routing_decision.needs_context = JBool(TRUE)
    /\ context # <<>>

\* The places of a text after which the rewriting of (a) a digit before a
\* single letter, (b) ")" before a single letter, (c) a single letter before
\* "(" puts a "*"
SingleLetterAt(c, i) ==
    /\ i \in 1..Len(c)
    /\ IsLetter(c[i])
    /\ (i > 1 => ~IsLetter(c[i - 1]))
    /\ (i < Len(c) => ~IsLetter(c[i + 1]))

StarPlaces(c) ==
    {i \in 1..(Len(c) - 1) :
        \/ (IsDigit(c[i]) \/ c[i] = ")") /\ SingleLetterAt(c, i + 1)
        \/ SingleLetterAt(c, i) /\ c[i + 1] = "("}

\* in a rewritten text, no "*" stands between a run of two or more letters
\* and "(", nor between a digit and a run of two or more letters
RunsKept(out) ==
    \A j \in 2..(Len(out) - 1) :
       out[j] = "*"
       => /\ (IsLetter(out[j - 1]) /\ out[j + 1] = "(" /\ j > 2)
               => ~IsLetter(out[j - 2])
          /\ (IsDigit(out[j - 1]) /\ IsLetter(out[j + 1]) /\ j + 2 <= Len(out))
               => ~IsLetter(out[j + 2])

\* C22: after "^" became "**", the text handed to the parser is the text with
\* a "*" put exactly between a digit and a single letter, between ")" and a
\* single letter, and between a single letter and "("; a run of two or more
\* letters is never split from a following "(", and nothing is put between
\* a digit and a run of two or more letters.
C22_ImplicitMultiplication ==
    (pc = "done" /\ entry = "_parse_expression_safely" /\ parserLog # <<>>)
    => /\ parserLog[1].text
            = InsertAfter(CaretToPower(Strip(parseArg)),
                          StarPlaces(CaretToPower(Strip(parseArg))), <<"*">>)
       /\ RunsKept(parserLog[1].text)

C22_Witness ==
    /\ pc = "done"
    /\ entry = "_parse_expression_safely"
    /\ parseArg = <<"2", "x", "(", ")">>
    /\ parserLog # <<>>
    /\ parserLog[1].text = <<"2", "*", "x", "*", "(", ")">>

C22_WitnessFunctionName ==
    /\ pc = "done"
    /\ entry = "_parse_expression_safely"
    /\ parseArg = <<"2", "x", "s", "(">>
    /\ parserLog # <<>>
    /\ parserLog[1].text = <<"2", "x", "s", "(">>

\* C23: for a query that holds an arithmetic expression after any number of
\* words, _extract_arithmetic_from_query returns a text with at least one
\* digit and at least one operator.
C23_ArithmeticFound ==
    (pc = "done" /\ entry = "_extract_arithmetic_from_query")
    => /\ \E i \in 1..Len(result.text) : IsDigit(result.text[i])
       /\ \E i \in 1..Len(result.text) : result.text[i] \in {"+", "-", "*", "/"}

\* the same for the queries with at most one word before the expression
C23_ArithmeticFoundAfterOneWord ==
    (/\ pc = "done"
     /\ entry = "_extract_arithmetic_from_query"
     /\ Cardinality({i \in 1..Len(query) : query[i] = " "}) <= 1)
    => /\ \E i \in 1..Len(result.text) : IsDigit(result.text[i])
       /\ \E i \in 1..Len(result.text) : result.text[i] \in {"+", "-", "*", "/"}

\* C24: for a query with "from A to B", "between A and B" or "[A, B]", A and
\* B tokens without white space, _extract_integral_params returns the limits
\* [A, B]; for a query with none of the three, the limits are None.
C24_LimitsRecognised ==
    (pc = "done" /\ entry = "_extract_integral_params")
    => /\ query \in IntegralParts.plain => result.limits = NoLimits
       /\ \A stem \in IntegralParts.stems,
             notation \in {"from", "between", "bracket"},
             A \in IntegralParts.tokens, B \in IntegralParts.tokens :
             query = LimitsQuery(stem, notation, A, B)
             => result.limits = LimitsList(<<A, B>>)

\* the same for the tokens that hold none of the letters the two word
\* patterns leave out of their first group (t, o and a, n, d)
C24_LimitsRecognisedWithoutThoseLetters ==
    (pc = "done" /\ entry = "_extract_integral_params")
    => /\ query \in IntegralParts.plain => result.limits = NoLimits
       /\ \A stem \in IntegralParts.stems,
             notation \in {"from", "between", "bracket"},
             A \in IntegralParts.tokens, B \in IntegralParts.tokens :
             (/\ query = LimitsQuery(stem, notation, A, B)
              /\ \A i \in 1..Len(A) : A[i] \notin {"t", "o", "a", "n", "d"})
             => result.limits = LimitsList(<<A, B>>)

\* C25: for a query without "with respect to", _extract_integral_params
\* returns the variable "x", whatever other words the query holds.
C25_DefaultVariable ==
    (/\ pc = "done"
     /\ entry = "_extract_integral_params"
     /\ ~Contains(Lower(query), Words.with_respect_to))
    => result.variable = <<"x">>

\* the same for the queries in which no "d" stands before a letter, a digit
\* or "_"
C25_DefaultVariableWithoutD ==
    (/\ pc = "done"
     /\ entry = "_extract_integral_params"
     /\ ~Contains(Lower(query), Words.with_respect_to)
     /\ \A i \in 1..(Len(query) - 1) :
           query[i] = "d" => query[i + 1] \notin WordChars)
    => result.variable = <<"x">>

\* C26: _extract_derivative_params returns the word after "with respect to"
\* as the variable, "x" without the phrase, and the order 2 for "second
\* derivative", 3 for "third derivative", N for "Nth derivative" and 1
\* otherwise, each whatever the other is.
C26_DerivativeParams ==
    (pc = "done" /\ entry = "_extract_derivative_params")
    => \A stem \in DerivativeParts.stems :
          /\ query = stem.text
                => result = [variable |-> <<"x">>, order |-> stem.order]
          /\ \A v \in DerivativeParts.variables :
                query = VariableQuery(stem, v)
                => result = [variable |-> v, order |-> stem.order]

\* C26, amended: the variable is the word after "with respect to" in lower
\* case, "x" without the phrase; the order is 2 for "second derivative", 3
\* for "third derivative", N for "Nth derivative" and 1 otherwise; each
\* whatever the other is.
C26_DerivativeParamsLowerCase ==
    (pc = "done" /\ entry = "_extract_derivative_params")
    => \A stem \in DerivativeParts.stems :
          /\ query = stem.text
                => result = [variable |-> <<"x">>, order |-> stem.order]
          /\ \A v \in DerivativeParts.variables :
                query = VariableQuery(stem, v)
                => result = [variable |-> Lower(v), order |-> stem.order]

\* a numeric order and an upper-case variable in one query
C26_Witness ==
    /\ pc = "done"
    /\ entry = "_extract_derivative_params"
    /\ Contains(query, <<"5", "t", "h">>)
    /\ Contains(query, Words.with_respect_to \o <<"T">>)
    /\ result = [variable |-> <<"t">>, order |-> 5]

\* C27: for a query "<prefix> E" with a known operation-name prefix,
\* _extract_expression_from_query returns E, and for "<prefix> E from A to B"
\* it returns E without the limits.
C27_ExpressionOnly ==
    (pc = "done" /\ entry = "_extract_expression_from_query")
    => \A prefix \in ExpressionParts.prefixes,
          E \in ExpressionParts.expressions,
          limits \in ExpressionParts.limits :
          query = ExpressionQuery(prefix, E, limits) => result.text = E

\* the same for the expressions in lower case without "_"
C27_ExpressionOnlyOfPlainText ==
    (pc = "done" /\ entry = "_extract_expression_from_query")
    => \A prefix \in ExpressionParts.prefixes,
          E \in ExpressionParts.expressions,
          limits \in ExpressionParts.limits :
          (/\ query = ExpressionQuery(prefix, E, limits)
           /\ E = Lower(E)
           /\ ~HasChar(E, "_"))
          => result.text = E

\* C28: calculate_complex_arithmetic cleans its input by turning every "x"
\* into "*" and then deleting every character outside digits, + - * / ( ) .
\* and whitespace; a success envelope's cleaned_expression is that text and
\* has only those characters, and its original_expression is the input
C28_Cleaning ==
    (/\ pc = "done"
     /\ opLog # <<>>
     /\ opLog[1].name = "calculate_complex_arithmetic"
     /\ opLog[1].ret.status = "success")
    => LET expression == opLog[1].args.expression
           ret == opLog[1].ret
           Kept(c) == c \in Digits \cup Spaces
                              \cup {"+", "-", "*", "/", "(", ")", "."}
           starred == [i \in 1..Len(expression) |->
                          IF expression[i] = "x" THEN "*" ELSE expression[i]]
       IN /\ ret.original_expression = expression
          /\ ret.cleaned_expression = SelectSeq(starred, Kept)
          /\ \A i \in 1..Len(ret.cleaned_expression) :
                Kept(ret.cleaned_expression[i])

\* a successful call whose input has an "x" and a character that is deleted
C28_Witness ==
    /\ pc = "done"
    /\ entry = "calculate_complex_arithmetic"
    /\ opLog[1].ret.status = "success"
    /\ HasChar(opLog[1].args.expression, "x")
    /\ HasChar(opLog[1].ret.cleaned_expression, "*")
    /\ Len(opLog[1].ret.cleaned_expression) < Len(opLog[1].args.expression)

\* C29: two solve_math runs that differ only in the relevant_context the
\* context fetcher returned call the same operation with the same arguments,
\* and when the engine answers both alike their envelopes agree on every
\* field except routing_decision.context_content
C29_ContextFree ==
    (/\ pc = "done" /\ entry = "solve_math"
     /\ parked.pc = "done" /\ parked.entry = "solve_math"
     /\ query = parked.query
     /\ fetcherGiven = parked.fetcherGiven
     /\ policyFile = parked.policyFile
     /\ output_text = parked.output_text
     \* the classifier raised in both runs or in neither
     /\ stages = <<"load", "classify">>
           <=> parked.stages = <<"load", "classify">>
     /\ [context_result EXCEPT !.relevant_context = <<>>]
           = [parked.context_result EXCEPT !.relevant_context = <<>>])
    => /\ outcome = parked.outcome
       /\ Len(opLog) = Len(parked.opLog)
       /\ opLog = <<>> => result = parked.result
       /\ opLog # <<>>
             => /\ opLog[1].name = parked.opLog[1].name
                /\ opLog[1].args = parked.opLog[1].args
                /\ opLog[1].ret = parked.opLog[1].ret
                      => [result EXCEPT
                             !.routing_decision.context_content = <<>>]
                         = [parked.result EXCEPT
                               !.routing_decision.context_content = <<>>]

\* two finished runs that differ in the context fetched and in nothing else
\* that they were given, and whose engine answered alike
C29_Witness ==
    /\ pc = "done" /\ entry = "solve_math"
    /\ parked.pc = "done" /\ parked.entry = "solve_math"
    /\ output_text = parked.output_text
    /\ policyFile = parked.policyFile
    /\ fetcherLog # <<>> /\ parked.fetcherLog # <<>>
    /\ context_result.status = "success"
    /\ parked.context_result.status = "success"
    /\ context # parked.context
    /\ opLog # <<>> /\ parked.opLog # <<>>
    /\ opLog[1].ret = parked.opLog[1].ret
    /\ result.routing_decision.context_content
          # parked.result.routing_decision.context_content

\* C30: the limits that solve_math hands to calculate_integral are None or a
\* list of exactly two strings, so calculate_integral never answers a
\* solve_math run with the error about the number of limits
C30_LimitsWellFormed ==
    (/\ entry = "solve_math"
     /\ opLog # <<>>
     /\ opLog[1].name = "calculate_integral")
    => /\ \/ opLog[1].args.limits.isNone
          \/ Len(opLog[1].args.limits.items) = 2
       /\ opLog[1].ret.status = "error"
             => opLog[1].ret.message[4] # LimitsError

\* the same for _extract_integral_params on the queries about integrals, with
\* calculate_integral applied to what it returns
C30_LimitsWellFormedOfQueries ==
    (pc = "done" /\ entry = "_extract_integral_params")
    => /\ result.limits.isNone \/ Len(result.limits.items) = 2
       /\ \A o \in EngineOutcomes :
             LET ret == calculate_integral(_extract_expression_from_query(query),
                                           result.variable, result.limits, o).ret
             IN ret.status = "error" => ret.message[4] # LimitsError

\* solve_math called calculate_integral with two limits taken from the query
C30_Witness ==
    /\ pc = "done"
    /\ entry = "solve_math"
    /\ opLog # <<>>
    /\ opLog[1].name = "calculate_integral"
    /\ opLog[1].args.limits = LimitsList(<< <<"0">>, <<"1">> >>)
    /\ opLog[1].ret.status = "success"
    /\ opLog[1].ret.integral_type = "definite"

\* solve_math called calculate_integral without limits
C30_WitnessNoLimits ==
    /\ pc = "done"
    /\ entry = "solve_math"
    /\ opLog # <<>>
    /\ opLog[1].name = "calculate_integral"
    /\ opLog[1].args.limits = NoLimits

====
